---------------------------- MODULE Spec2Model ----------------------------
(***************************************************************************)
(* Verification model of the ollama model store (server/images.go), the    *)
(* prompt template engine (template/template.go) and the SentencePiece     *)
(* tokenizer (model/process_text_spm.go).                                  *)
(*                                                                         *)
(* Each subsystem has its own specification over the shared variables:     *)
(*   SpecStore     the blob/manifest store under concurrent operations     *)
(*   SpecTemplate  Parse / Execute / collate of the template engine        *)
(*   SpecTokenizer Encode / Decode of the SentencePiece tokenizer          *)
(* A specification leaves the other subsystems' variables at their idle    *)
(* values.                                                                 *)
(*                                                                         *)
(* Strings the program concatenates or inspects are sequences of           *)
(* one-character strings, so that joins and suffixes are computed.         *)
(***************************************************************************)
EXTENDS Integers, Sequences, FiniteSets, TLC

VARIABLES
    \* ---- model store (server/images.go) ----
    blobs,      \* the set of files in $ROOT/blobs
    manifests,  \* model name -> content of its manifest file
    pull,       \* the PullModel call in flight
    copy,       \* the CopyModel call in flight
    gc,         \* the PruneLayers / deleteUnusedLayers call in flight
    push,       \* the PushModel call in flight
    ops,        \* number of store operations started so far
    \* ---- template engine (template/template.go) ----
    tpc,        \* "new", "parsed" or "executed"
    tsrc,       \* the parse tree of the template source, as the parser built it
    tmpl,       \* the Template that Parse returned (its tree)
    tv,         \* the Values of the last Execute call
    tres,       \* what the last Execute call did and wrote
    recollated, \* collate applied to the collated list of the last call
    cc,         \* the Model.CheckCapabilities call on the model of the template
    \* ---- tokenizer (model/process_text_spm.go) ----
    tk,         \* the SentencePieceModel and its Encode / Decode call in flight
    \* ---- PruneDirectory (server/images.go) ----
    pd,         \* the directory tree and the PruneDirectory call on it
    \* ---- interactive session (cmd/interactive.go) ----
    repl,       \* the session of generateInteractive: options, buffer, state
    \* ---- mllama text decoder (model/models/mllama/model_text.go) ----
    dec         \* the TextDecoder, its cache and the Forward call in flight

storeVars == <<blobs, manifests, pull, copy, gc, push, ops>>

tmplVars == <<tpc, tsrc, tmpl, tv, tres, recollated, cc>>

vars == <<storeVars, tmplVars, tk, pd, repl, dec>>

\* What the actions of one subsystem leave alone.
NotStore == <<tmplVars, tk, pd, repl, dec>>

NotTemplate == <<storeVars, tk, pd, repl, dec>>

NotTokenizer == <<storeVars, tmplVars, pd, repl, dec>>

NotPrune == <<storeVars, tmplVars, tk, repl, dec>>

NotRepl == <<storeVars, tmplVars, tk, pd, dec>>

NotDecoder == <<storeVars, tmplVars, tk, pd, repl>>

\* Bound: store operations started in one behaviour.
MaxOps == 2

(***************************************************************************)
(*                            MODEL STORE                                  *)
(***************************************************************************)

\* Digests of the blobs the modelled registry serves.
Digests == {"sha256:a", "sha256:b", "sha256:c"}

\* A file of blobs/: the blob of a digest (suffix ""), or the "-partial"
\* side file a download writes before it renames it into place.
BlobFile(d) == [digest |-> d, suffix |-> ""]

PartialFile(d) == [digest |-> d, suffix |-> "-partial"]

\* GetBlobsPath(name) succeeds exactly on a well-formed digest; every other
\* file name of blobs/ yields ErrInvalidDigestFormat.
IsDigestName(f) == f.suffix = ""

\* Fully qualified model names that own a manifest path, and one name that
\* is not fully qualified.
QualifiedNames == {"reg/lib/m:1", "reg/lib/m:2"}

UnqualifiedName == "m"

IsFullyQualified(n) == n \in QualifiedNames

\* The operations' records keep what the code's locals hold while the call
\* runs; a returned call keeps only its result.

\* Content of a manifest file: absent, unparsable, or a manifest.
NoFile == [kind |-> "absent", layers |-> <<>>, config |-> ""]

Corrupt == [kind |-> "corrupt", layers |-> <<>>, config |-> ""]

Manifest(ls, c) == [kind |-> "manifest", layers |-> ls, config |-> c]

\* The manifests the remote registry may answer a pull with.
RemoteManifests ==
    { Manifest(<<"sha256:a">>, "sha256:c"),
      Manifest(<<"sha256:b">>, "sha256:c"),
      Manifest(<<"sha256:a", "sha256:b">>, "") }

IsManifest(m) == m.kind = "manifest"

Range(s) == {s[i] : i \in DOMAIN s}

\* layers = manifest.Layers, plus manifest.Config when its digest is not "".
LayersOf(m) == IF m.config # "" THEN Append(m.layers, m.config) ELSE m.layers

\* Manifests(true): the parsable manifests; corrupt files are skipped.
Manifests(ms) == {ms[n] : n \in {x \in DOMAIN ms : IsManifest(ms[x])}}

\* The digests deleteUnusedLayers strikes from its delete map: every layer
\* digest and the config digest of every installed manifest.
ReferencedDigests(ms) ==
    UNION {Range(m.layers) \cup {m.config} : m \in Manifests(ms)}


\* ---- process records ----
\* seed: the delete map as it was seeded when the call began.
PullIdle ==
    [pc |-> "idle", name |-> "", deleteMap |-> {}, seed |-> {}, m |-> NoFile,
     i |-> 0, err |-> ""]

\* The PushModel call (images.go 494-541).
\* name: the model pushed; layers: the digests to upload (manifest.Layers and
\* then manifest.Config); i: the layer the loop is at; events: the Status of
\* every ProgressResponse handed to fn, in order; sent: the requests that went
\* to the registry, a blob once uploadBlob returned nil and the manifest PUT
\* once makeRequestWithRetry was called; err: the error returned.
PushIdle ==
    [pc |-> "idle", name |-> "", layers |-> <<>>, i |-> 0, events |-> <<>>,
     sent |-> <<>>, err |-> ""]

CopyIdle ==
    [pc |-> "idle", src |-> "", dst |-> "", content |-> NoFile, err |-> "",
     before |-> <<>>, interfered |-> FALSE]

GcIdle ==
    [pc |-> "idle", caller |-> "", listing |-> {}, deleteMap |-> {},
     todo |-> {}, cands |-> {}, blobs0 |-> {}, interfered |-> FALSE]

\* Bookkeeping for the contracts of PruneLayers and deleteUnusedLayers:
\* records that another operation changed the store since the call began.
Touched(g) == IF g.pc # "idle" THEN [g EXCEPT !.interfered = TRUE] ELSE g

\* A store that already holds one pulled model.
InstalledStore ==
    [blobs |-> {BlobFile("sha256:a"), BlobFile("sha256:c")},
     manifests |-> [n \in QualifiedNames |->
                      IF n = "reg/lib/m:1"
                      THEN Manifest(<<"sha256:a">>, "sha256:c") ELSE NoFile]]

EmptyStore ==
    [blobs |-> {}, manifests |-> [n \in QualifiedNames |-> NoFile]]

\* The store starts empty or with one model installed by an earlier pull.
StoreInit ==
    /\ \E st \in {EmptyStore, InstalledStore} :
        /\ blobs = st.blobs
        /\ manifests = st.manifests
    /\ pull = PullIdle
    /\ copy = CopyIdle
    /\ gc = GcIdle
    /\ push = PushIdle
    /\ ops = 0

\* ---- PullModel ----

\* Mutant of PullSeed: the config digest is left out.
PullSeedLayersOnly(old) == IF IsManifest(old) THEN Range(old.layers) ELSE {}

\* The delete map PullModel seeds from the existing local manifest.
PullSeed(old) ==
    IF IsManifest(old)
    THEN Range(old.layers) \cup (IF old.config # "" THEN {old.config} ELSE {})
    ELSE {}

\* PullModel up to the protocol check: reads the local manifest, seeds the
\* delete map, rejects http without the insecure option.
PullStart(n, scheme, insecure) ==
    /\ ops < MaxOps
    /\ ops' = ops + 1
    /\ pull.pc \in {"idle", "done"}
    /\ pull' = [PullIdle EXCEPT
                  !.name = n,
                  !.deleteMap = PullSeed(manifests[n]),
                  !.seed = PullSeed(manifests[n]),
                  !.pc = IF scheme = "http" /\ ~insecure THEN "done" ELSE "manifest",
                  !.err = IF scheme = "http" /\ ~insecure
                          THEN "insecure protocol http" ELSE ""]
    /\ UNCHANGED <<blobs, manifests, copy, gc>>
    /\ UNCHANGED <<push, NotStore>>

\* pullModelManifest: the registry answers with a manifest, or the fetch fails.
PullManifest ==
    /\ pull.pc = "manifest"
    /\ \/ \E m \in RemoteManifests :
            pull' = [pull EXCEPT !.m = m, !.i = 1, !.pc = "download"]
       \/ pull' = [PullIdle EXCEPT !.pc = "done", !.err = "pull model manifest"]
    /\ UNCHANGED <<blobs, manifests, copy, gc, ops>>
    /\ UNCHANGED <<push, NotStore>>

\* downloadBlob on layer i: a cache hit when the blob is present, otherwise
\* the download starts by creating the partial file of the digest.
PullDownload ==
    /\ pull.pc = "download"
    /\ pull.i <= Len(LayersOf(pull.m))
    /\ LET d == LayersOf(pull.m)[pull.i] IN
        IF BlobFile(d) \in blobs
        THEN /\ pull' = [pull EXCEPT !.deleteMap = @ \ {d}, !.i = @ + 1]
             /\ UNCHANGED <<blobs, gc>>
        ELSE /\ blobs' = blobs \cup {PartialFile(d)}
             /\ pull' = [pull EXCEPT !.pc = "downloading"]
             /\ gc' = Touched(gc)
    /\ UNCHANGED <<manifests, copy, ops>>
    /\ UNCHANGED <<push, NotStore>>

\* downloadBlob completes: the partial file is renamed to the blob and the
\* digest leaves the delete map; the rename fails when the partial file is
\* gone, and PullModel returns the error.
PullDownloaded ==
    /\ pull.pc = "downloading"
    /\ LET d == LayersOf(pull.m)[pull.i] IN
        IF PartialFile(d) \in blobs
        THEN /\ blobs' = (blobs \ {PartialFile(d)}) \cup {BlobFile(d)}
             /\ pull' = [pull EXCEPT !.deleteMap = @ \ {d}, !.i = @ + 1,
                                     !.pc = "download"]
             /\ gc' = Touched(gc)
        ELSE /\ pull' = [PullIdle EXCEPT !.pc = "done", !.err = "download"]
             /\ UNCHANGED <<blobs, gc>>
    /\ UNCHANGED <<manifests, copy, ops>>
    /\ UNCHANGED <<push, NotStore>>

\* downloadBlob fails (network, digest mismatch): PullModel returns the
\* error; the partial file stays for a later resume.
PullDownloadFails ==
    /\ pull.pc = "downloading"
    /\ pull' = [PullIdle EXCEPT !.pc = "done", !.err = "download"]
    /\ UNCHANGED <<blobs, manifests, copy, gc, ops>>
    /\ UNCHANGED <<push, NotStore>>

\* After the last layer: delete(deleteMap, manifest.Config.Digest).
PullLayersDone ==
    /\ pull.pc = "download"
    /\ pull.i > Len(LayersOf(pull.m))
    /\ pull' = [pull EXCEPT !.deleteMap = @ \ {pull.m.config}, !.pc = "install"]
    /\ UNCHANGED <<blobs, manifests, copy, gc, ops>>
    /\ UNCHANGED <<push, NotStore>>

\* The new manifest is installed in one step (temporary file, then rename).
PullInstall ==
    /\ pull.pc = "install"
    /\ manifests' = [manifests EXCEPT ![pull.name] = pull.m]
    /\ pull' = [PullIdle EXCEPT !.pc = "done"]
    /\ gc' = Touched(gc)
    /\ copy' = Touched(copy)
    /\ UNCHANGED <<blobs, ops>>
    /\ UNCHANGED <<push, NotStore>>

\* ---- CopyModel ----

\* CopyModel up to the path comparison.
CopyStart(src, dst) ==
    /\ ops < MaxOps
    /\ ops' = ops + 1
    /\ copy.pc \in {"idle", "done"}
    /\ copy' =
        LET call == [CopyIdle EXCEPT !.src = src, !.dst = dst,
                                     !.before = manifests]
        IN IF ~IsFullyQualified(dst) \/ ~IsFullyQualified(src)
           THEN [call EXCEPT !.pc = "done", !.err = "unqualified"]
           ELSE IF src = dst
           THEN [call EXCEPT !.pc = "done"]
           ELSE [call EXCEPT !.pc = "open"]
    /\ UNCHANGED <<blobs, manifests, pull, gc>>
    /\ UNCHANGED <<push, NotStore>>

\* os.Open(srcpath): fails when src has no manifest file; otherwise the open
\* file keeps the content it had when opened.
CopyOpen ==
    /\ copy.pc = "open"
    /\ copy' = IF manifests[copy.src] = NoFile
               THEN [copy EXCEPT !.pc = "done", !.err = "not exist"]
               ELSE [copy EXCEPT !.pc = "create", !.content = manifests[copy.src]]
    /\ UNCHANGED <<blobs, manifests, pull, gc, ops>>
    /\ UNCHANGED <<push, NotStore>>

\* os.Create(dstpath): dst exists and is empty until the copy has run.
CopyCreate ==
    /\ copy.pc = "create"
    /\ manifests' = [manifests EXCEPT ![copy.dst] = Corrupt]
    /\ copy' = [copy EXCEPT !.pc = "write"]
    /\ gc' = Touched(gc)
    /\ UNCHANGED <<blobs, pull, ops>>
    /\ UNCHANGED <<push, NotStore>>

\* Mutant of CopyWrite: nothing is copied into the created file.
CopyWriteNothing ==
    /\ copy.pc = "write"
    /\ copy' = [copy EXCEPT !.pc = "done", !.content = NoFile]
    /\ gc' = Touched(gc)
    /\ UNCHANGED <<blobs, manifests, pull, ops>>
    /\ UNCHANGED <<push, NotStore>>

\* io.Copy(dstfile, srcfile)
CopyWrite ==
    /\ copy.pc = "write"
    /\ manifests' = [manifests EXCEPT ![copy.dst] = copy.content]
    /\ copy' = [copy EXCEPT !.pc = "done", !.content = NoFile]
    /\ gc' = Touched(gc)
    /\ UNCHANGED <<blobs, pull, ops>>
    /\ UNCHANGED <<push, NotStore>>

\* ---- deleteUnusedLayers and PruneLayers ----

\* A call deleteUnusedLayers(deleteMap) from outside PruneLayers.
DeleteUnusedStart(cands) ==
    /\ ops < MaxOps
    /\ ops' = ops + 1
    /\ gc.pc \in {"idle", "done"}
    /\ gc' = [GcIdle EXCEPT !.pc = "du_read", !.caller = "du",
                            !.deleteMap = cands, !.cands = cands,
                            !.blobs0 = blobs]
    /\ UNCHANGED <<blobs, manifests, pull, copy>>
    /\ UNCHANGED <<push, NotStore>>

\* Mutant of Unreferenced: only the layer digests are subtracted, the config
\* digests are not.
UnreferencedLayersOnly(deleteMap, ms) ==
    deleteMap \ UNION {Range(m.layers) : m \in Manifests(ms)}

\* What is left of the delete map after the manifests are subtracted.
Unreferenced(deleteMap, ms) == deleteMap \ ReferencedDigests(ms)

\* deleteUnusedLayers, first loop: read the manifests and strike every
\* digest they reference.
DeleteUnusedRead ==
    /\ gc.pc = "du_read"
    /\ LET left == Unreferenced(gc.deleteMap, manifests) IN
        gc' = [gc EXCEPT !.deleteMap = left, !.todo = left, !.pc = "du_remove"]
    /\ UNCHANGED <<blobs, manifests, pull, copy, ops>>
    /\ UNCHANGED <<push, NotStore>>

\* deleteUnusedLayers, second loop: os.Remove of one remaining digest's blob
\* (a failed removal is logged and skipped).
DeleteUnusedRemove ==
    /\ gc.pc = "du_remove"
    /\ \E k \in gc.todo :
        /\ blobs' = blobs \ {BlobFile(k)}
        /\ gc' = [gc EXCEPT !.todo = @ \ {k}]
    /\ UNCHANGED <<manifests, pull, copy, ops>>
    /\ UNCHANGED <<push, NotStore>>

DeleteUnusedReturn ==
    /\ gc.pc = "du_remove"
    /\ gc.todo = {}
    /\ gc' = [gc EXCEPT !.pc = "done", !.deleteMap = {}]
    /\ UNCHANGED <<blobs, manifests, pull, copy, ops>>
    /\ UNCHANGED <<push, NotStore>>

\* PruneLayers: os.ReadDir(blobs).
PruneReadDir ==
    /\ ops < MaxOps
    /\ ops' = ops + 1
    /\ gc.pc \in {"idle", "done"}
    /\ gc' = [GcIdle EXCEPT !.pc = "listed", !.caller = "prune",
                            !.listing = blobs, !.blobs0 = blobs]
    /\ UNCHANGED <<blobs, manifests, pull, copy>>
    /\ UNCHANGED <<push, NotStore>>

\* Mutant of PruneMalformed: names that are not a digest are left in place.
PruneKeepsMalformed(listing) == {}

\* The files PruneLayers removes itself: the listed names that are not a
\* digest ("Remove partial or corrupt blobs").
PruneMalformed(listing) == {f \in listing : ~IsDigestName(f)}

\* PruneLayers, the loop over the listing: malformed names are removed, the
\* others are collected into the delete map handed to deleteUnusedLayers.
PruneSweep ==
    /\ gc.pc = "listed"
    /\ blobs' = blobs \ PruneMalformed(gc.listing)
    /\ LET dm == {f.digest : f \in gc.listing \ PruneMalformed(gc.listing)} IN
        gc' = [gc EXCEPT !.deleteMap = dm, !.cands = dm, !.listing = {},
                         !.pc = "du_read"]
    /\ UNCHANGED <<manifests, pull, copy, ops>>
    /\ UNCHANGED <<push, NotStore>>

Schemes == {"https", "http"}

\* The tokenizer before any call.
\* generateInteractive is not running: its locals do not exist.
NoSession ==
    [pc |-> "idle", multiline |-> "MultilineNone", sb |-> <<>>,
     UseAlt |-> FALSE, Model |-> <<>>, System |-> <<>>,
     Messages |-> <<>>, Options |-> {}, Format |-> <<>>,
     MultiModal |-> FALSE, event |-> "", line |-> <<>>, pasting |-> FALSE,
     printed |-> <<>>, n |-> 0, err |-> "", out |-> ""]

ReplIdle == repl = NoSession

\* No TextDecoder.Forward call was made.
NoTensor == [given |-> FALSE, rows |-> <<>>]

\* The cache before any pass: no layer selected, no encoder keys and values
\* in any layer, no call made.
NewCache ==
    [layer |-> -1, layerType |-> "none", encoderCached |-> FALSE,
     keys |-> {}, calls |-> <<>>]

NoForward ==
    [pc |-> "idle", Layers |-> <<>>, crossAttentionLayers |-> {}, enc |-> FALSE,
     outputs |-> NoTensor, hidden |-> [rows |-> <<>>, by |-> <<>>], i |-> 0,
     cache |-> NewCache]

DecoderIdle == dec = NoForward

PruneIdle ==
    pd = [pc |-> "idle", fs |-> <<>>, path |-> 0, after |-> <<>>, err |-> ""]

TokenizerIdle ==
    tk = [pc |-> "idle",
          vocab |-> [values |-> <<>>, scores |-> <<>>, types |-> <<>>,
                     BOS |-> 0, EOS |-> 0, AddBOS |-> FALSE, AddEOS |-> FALSE],
          pre |-> "", s |-> <<>>, addSpecial |-> FALSE, todo |-> <<>>,
          ids |-> <<>>, runes |-> <<>>, merges |-> <<>>, pq |-> <<>>,
          body |-> <<>>, decoded |-> <<>>]

\* The template engine before any call: nothing parsed.
TemplateIdle ==
    /\ tpc = "new"
    /\ tsrc = [type |-> "nil"]
    /\ tmpl = [type |-> "nil"]
    /\ tv = <<>>
    /\ tres = <<>>
    /\ recollated = [type |-> "nil"]
    /\ cc = [caps |-> <<>>, file |-> "", err |-> [kind |-> "nil"]]

\* ---- PushModel (images.go 494-541): the steps ----
\* ParseModelPath, fn("retrieving manifest"), the insecure-protocol check.
PushStart(n, scheme, insecure) ==
    /\ ops < MaxOps
    /\ ops' = ops + 1
    /\ push.pc \in {"idle", "done"}
    /\ push' = [PushIdle EXCEPT
                  !.name = n,
                  !.events = <<"retrieving manifest">>,
                  !.pc = IF scheme = "http" /\ ~insecure THEN "done" ELSE "manifest",
                  !.err = IF scheme = "http" /\ ~insecure
                          THEN "insecure protocol http" ELSE ""]
    /\ UNCHANGED <<blobs, manifests, pull, copy, gc>>
    /\ UNCHANGED NotStore

\* GetManifest(mp): the manifest file is read and decoded, or the push ends
\* with "couldn't retrieve manifest".
PushGetManifest ==
    /\ push.pc = "manifest"
    /\ LET m == manifests[push.name] IN
       push' = IF m.kind = "manifest"
               THEN [push EXCEPT !.layers = LayersOf(m), !.i = 1, !.pc = "upload"]
               ELSE [push EXCEPT
                       !.events = Append(@, "couldn't retrieve manifest"),
                       !.err = IF m.kind = "absent" THEN "not exist" ELSE "decode",
                       !.pc = "done"]
    /\ UNCHANGED <<blobs, manifests, pull, copy, gc, ops>>
    /\ UNCHANGED NotStore

\* uploadBlob on layer i returned nil: the blob is at the registry.
PushUploaded ==
    /\ push.pc = "upload"
    /\ push.i <= Len(push.layers)
    /\ push' = [push EXCEPT
                  !.events = Append(@, "pushing blob"),
                  !.sent = Append(@, [kind |-> "blob", digest |-> push.layers[push.i]]),
                  !.i = @ + 1]
    /\ UNCHANGED <<blobs, manifests, pull, copy, gc, ops>>
    /\ UNCHANGED NotStore

\* Mutant of PushUploadFails: the error of uploadBlob is dropped and the loop
\* goes on to the next layer.
PushUploadErrorDropped ==
    /\ push.pc = "upload"
    /\ push.i <= Len(push.layers)
    /\ push' = [push EXCEPT !.i = @ + 1]
    /\ UNCHANGED <<blobs, manifests, pull, copy, gc, ops>>
    /\ UNCHANGED NotStore

\* uploadBlob on layer i returned an error: PushModel returns it.
PushUploadFails ==
    /\ push.pc = "upload"
    /\ push.i <= Len(push.layers)
    /\ push' = [push EXCEPT !.err = "upload", !.pc = "done"]
    /\ UNCHANGED <<blobs, manifests, pull, copy, gc, ops>>
    /\ UNCHANGED NotStore

\* The loop is over: fn("pushing manifest"), the manifest is marshalled and
\* the PUT of /v2/<repo>/manifests/<tag> is handed to makeRequestWithRetry.
PushManifest ==
    /\ push.pc = "upload"
    /\ push.i > Len(push.layers)
    /\ push' = [push EXCEPT
                  !.events = Append(@, "pushing manifest"),
                  !.sent = Append(@, [kind |-> "manifest", digest |-> ""]),
                  !.pc = "put"]
    /\ UNCHANGED <<blobs, manifests, pull, copy, gc, ops>>
    /\ UNCHANGED NotStore

\* makeRequestWithRetry returned: an error is returned as it is, otherwise
\* fn("success") and nil.
PushPut ==
    /\ push.pc = "put"
    /\ \/ push' = [push EXCEPT !.events = Append(@, "success"), !.pc = "done"]
       \/ push' = [push EXCEPT !.err = "put", !.pc = "done"]
    /\ UNCHANGED <<blobs, manifests, pull, copy, gc, ops>>
    /\ UNCHANGED NotStore

NextStore ==
    \/ \E n \in QualifiedNames, s \in Schemes, ins \in BOOLEAN : PullStart(n, s, ins)
    \/ PullManifest
    \/ PullDownload
    \/ PullDownloaded
    \/ PullDownloadFails
    \/ PullLayersDone
    \/ PullInstall
    \/ \E s, d \in QualifiedNames \cup {UnqualifiedName} : CopyStart(s, d)
    \/ CopyOpen
    \/ CopyCreate
    \/ CopyWrite
    \/ \E c \in SUBSET Digests : DeleteUnusedStart(c)
    \/ DeleteUnusedRead
    \/ DeleteUnusedRemove
    \/ DeleteUnusedReturn
    \/ PruneReadDir
    \/ PruneSweep
    \/ \E n \in QualifiedNames, s \in Schemes, ins \in BOOLEAN : PushStart(n, s, ins)
    \/ PushGetManifest
    \/ PushUploaded
    \/ PushUploadFails
    \/ PushManifest
    \/ PushPut

\* Only the store operations run.
InitStore == StoreInit /\ TemplateIdle /\ TokenizerIdle /\ PruneIdle /\ ReplIdle /\ DecoderIdle

SpecStore == InitStore /\ [][NextStore]_vars


(***************************************************************************)
(*                          TEMPLATE ENGINE                                *)
(***************************************************************************)

\* ---- strings ----
Nil == [type |-> "nil"]

NL2 == <<"\n", "\n">>

RECURSIVE Join(_, _)
\* strings.Join(strs, sep)
Join(strs, sep) ==
    IF Len(strs) = 0 THEN <<>>
    ELSE IF Len(strs) = 1 THEN strs[1]
    ELSE strs[1] \o sep \o Join(Tail(strs), sep)

\* strings.ToLower on the identifiers that occur in the modelled templates.
ToLower(id) ==
    CASE id = "Prompt" -> "prompt"
      [] id = "Response" -> "response"
      [] id = "System" -> "system"
      [] id = "Suffix" -> "suffix"
      [] id = "Messages" -> "messages"
      [] id = "Tools" -> "tools"
      [] id = "Role" -> "role"
      [] id = "Content" -> "content"
      [] OTHER -> id

\* ---- messages and collate ----
Msg(role, content) == [role |-> role, content |-> content]

RECURSIVE SystemContentsLast(_)
\* Mutant of SystemContents: a later system message replaces the earlier ones.
SystemContentsLast(msgs) ==
    IF msgs = <<>> THEN <<>>
    ELSE IF msgs[Len(msgs)].role = "system"
         THEN <<msgs[Len(msgs)].content>>
         ELSE SystemContentsLast(SubSeq(msgs, 1, Len(msgs) - 1))

RECURSIVE SystemContents(_)
\* The contents of the system-role messages, in order.
SystemContents(msgs) ==
    IF msgs = <<>> THEN <<>>
    ELSE IF Head(msgs).role = "system"
         THEN <<Head(msgs).content>> \o SystemContents(Tail(msgs))
         ELSE SystemContents(Tail(msgs))

RECURSIVE CollatedHoisted(_)
\* Mutant of Collated: system messages are hoisted out of the list.
CollatedHoisted(msgs) ==
    IF msgs = <<>> THEN <<>>
    ELSE LET prev == CollatedHoisted(SubSeq(msgs, 1, Len(msgs) - 1))
             msg == msgs[Len(msgs)]
         IN IF msg.role = "system" THEN prev
            ELSE IF Len(prev) > 0 /\ prev[Len(prev)].role = msg.role
            THEN [prev EXCEPT ![Len(prev)].content = @ \o NL2 \o msg.content]
            ELSE Append(prev, msg)

RECURSIVE Collated(_)
\* The list collate builds: a message joins the last collated message when
\* their roles are equal, and is appended otherwise.
Collated(msgs) ==
    IF msgs = <<>> THEN <<>>
    ELSE LET prev == Collated(SubSeq(msgs, 1, Len(msgs) - 1))
             msg == msgs[Len(msgs)]
         IN IF Len(prev) > 0 /\ prev[Len(prev)].role = msg.role
            THEN [prev EXCEPT ![Len(prev)].content = @ \o NL2 \o msg.content]
            ELSE Append(prev, msg)

\* collate(msgs): (strings.Join(system, "\n\n"), collated)
collate(msgs) ==
    [system |-> Join(SystemContents(msgs), NL2), collated |-> Collated(msgs)]

\* ---- parse tree (text/template/parse nodes) ----
TextNode(t) == [type |-> "text", text |-> t]

FieldNode(ident) == [type |-> "field", ident |-> ident]

VariableNode(ident) == [type |-> "variable", ident |-> ident]

CommandNode(args) == [type |-> "command", args |-> args]

PipeNode(cmds) == [type |-> "pipe", cmds |-> cmds]

ActionNode(pipe) == [type |-> "action", pipe |-> pipe]

ListNode(nodes) == [type |-> "list", nodes |-> nodes]

\* An IfNode, RangeNode or WithNode with its BranchNode; elseList is Nil
\* when the source has no else branch.
BranchNode(kind, pipe, list, elseList) ==
    [type |-> kind, pipe |-> pipe, list |-> list, elseList |-> elseList]

BranchKinds == {"if", "range", "with"}

\* {{ .A.B }}: an action whose pipe is the single field .A.B
Field(ident) == ActionNode(PipeNode(<<CommandNode(<<FieldNode(ident)>>)>>))

FieldPipe(ident) == PipeNode(<<CommandNode(<<FieldNode(ident)>>)>>)

\* response: the prebuilt node {{ .Response }}
response == Field(<<"Response">>)

RECURSIVE Identifiers(_)
RECURSIVE IdentifiersOfAll(_)
\* Identifiers of every node of a sequence, concatenated.
IdentifiersOfAll(nodes) ==
    IF nodes = <<>> THEN <<>>
    ELSE Identifiers(Head(nodes)) \o IdentifiersOfAll(Tail(nodes))

RECURSIVE IdentifiersNoElse(_)
\* Mutant of Identifiers: the else branch of a conditional is not visited.
IdentifiersNoElse(n) ==
    CASE n.type = "list" -> IdentifiersOfAll(n.nodes)
      [] n.type = "action" -> Identifiers(n.pipe)
      [] n.type \in BranchKinds ->
            Identifiers(n.pipe) \o Identifiers(n.list)
      [] n.type = "pipe" -> IdentifiersOfAll(n.cmds)
      [] n.type = "command" -> IdentifiersOfAll(n.args)
      [] n.type \in {"field", "variable"} -> n.ident
      [] OTHER -> <<>>

\* Identifiers(n): the identifiers of the fields and variables under n. An
\* action yields those of its pipe; an if, range or with node those of its
\* branch: the pipe, the list and, when present, the else list.
Identifiers(n) ==
    CASE n.type = "list" -> IdentifiersOfAll(n.nodes)
      [] n.type = "action" -> Identifiers(n.pipe)
      [] n.type \in BranchKinds ->
            Identifiers(n.pipe) \o Identifiers(n.list)
              \o (IF n.elseList # Nil THEN Identifiers(n.elseList) ELSE <<>>)
      [] n.type = "pipe" -> IdentifiersOfAll(n.cmds)
      [] n.type = "command" -> IdentifiersOfAll(n.args)
      [] n.type \in {"field", "variable"} -> n.ident
      [] OTHER -> <<>>

\* Template.Vars: the lowercased identifiers of the root's nodes, as a set.
Vars(tree) == {ToLower(id) : id \in Range(IdentifiersOfAll(tree.nodes))}

\* Parse, once the source has parsed into `tree`: {{ .Response }} is
\* appended to the root when the variables hold neither "messages" nor
\* "response".
Parse(tree) ==
    IF "messages" \notin Vars(tree) /\ "response" \notin Vars(tree)
    THEN ListNode(Append(tree.nodes, response))
    ELSE tree

\* ---- execution of a parse tree (text/template) ----
\* Values a template sees: a string, a list of messages, a message, the
\* map passed to Execute, or the nil of a key the map does not hold.
StrVal(s) == [t |-> "str", v |-> s]

ListVal(l) == [t |-> "list", v |-> l]

MsgVal(m) == [t |-> "msg", v |-> m]

MapVal(m) == [t |-> "map", v |-> m]

NoValue == [t |-> "none"]

ErrVal == [t |-> "error"]

NoValueText == <<"<", "n", "o", " ", "v", "a", "l", "u", "e", ">">>

\* The characters of a role name.
RoleText(role) ==
    CASE role = "system" -> <<"s", "y", "s", "t", "e", "m">>
      [] role = "user" -> <<"u", "s", "e", "r">>
      [] role = "assistant" -> <<"a", "s", "s", "i", "s", "t", "a", "n", "t">>
      [] OTHER -> <<"t", "o", "o", "l">>

\* One step of a field chain: a key of the map (missing keys give the zero
\* value, nil), a field of a message; anything else is an execution error.
FieldOf(val, name) ==
    CASE val.t = "map" ->
            IF name \in DOMAIN val.v THEN val.v[name] ELSE NoValue
      [] val.t = "msg" ->
            IF name = "Role" THEN StrVal(RoleText(val.v.role))
            ELSE IF name = "Content" THEN StrVal(val.v.content)
            ELSE ErrVal
      [] OTHER -> ErrVal

RECURSIVE FieldChain(_, _)
FieldChain(val, ident) ==
    IF ident = <<>> THEN val
    ELSE FieldChain(FieldOf(val, Head(ident)), Tail(ident))

\* The value of a pipe: of its single field or variable argument ($ is the
\* data passed to Execute). Function calls are not modelled.
EvalPipe(pipe, dot, data) ==
    IF Len(pipe.cmds) # 1 \/ Len(pipe.cmds[1].args) # 1 THEN ErrVal
    ELSE LET arg == pipe.cmds[1].args[1] IN
         CASE arg.type = "field" -> FieldChain(dot, arg.ident)
           [] arg.type = "variable" ->
                IF Head(arg.ident) = "$" THEN FieldChain(data, Tail(arg.ident))
                ELSE ErrVal
           [] OTHER -> ErrVal

\* text/template's truth of a value.
IsTrue(val) ==
    CASE val.t = "str" -> val.v # <<>>
      [] val.t = "list" -> val.v # <<>>
      [] val.t = "none" -> FALSE
      [] OTHER -> TRUE

\* What printing a value writes.
Printed(val) ==
    CASE val.t = "str" -> val.v
      [] val.t = "none" -> NoValueText
      [] OTHER -> <<"[", "]">>

RECURSIVE ExecNode(_, _, _)
RECURSIVE ExecNodes(_, _, _)
RECURSIVE ExecRange(_, _, _, _)
\* Executes the nodes in order and stops at the first error; what was
\* written before the error stays written.
ExecNodes(nodes, dot, data) ==
    IF nodes = <<>> THEN [out |-> <<>>, err |-> FALSE]
    ELSE LET r == ExecNode(Head(nodes), dot, data) IN
         IF r.err THEN r
         ELSE LET rest == ExecNodes(Tail(nodes), dot, data) IN
              [out |-> r.out \o rest.out, err |-> rest.err]

\* The body of a range, once per element with dot set to the element.
ExecRange(list, elems, i, data) ==
    IF i > Len(elems) THEN [out |-> <<>>, err |-> FALSE]
    ELSE LET r == ExecNode(list, MsgVal(elems[i]), data) IN
         IF r.err THEN r
         ELSE LET rest == ExecRange(list, elems, i + 1, data) IN
              [out |-> r.out \o rest.out, err |-> rest.err]

ExecElse(n, dot, data) ==
    IF n.elseList # Nil THEN ExecNode(n.elseList, dot, data)
    ELSE [out |-> <<>>, err |-> FALSE]

ExecNode(n, dot, data) ==
    CASE n.type = "text" -> [out |-> n.text, err |-> FALSE]
      [] n.type = "list" -> ExecNodes(n.nodes, dot, data)
      [] n.type = "action" ->
            LET val == EvalPipe(n.pipe, dot, data) IN
            IF val.t = "error" THEN [out |-> <<>>, err |-> TRUE]
            ELSE [out |-> Printed(val), err |-> FALSE]
      [] n.type \in {"if", "with"} ->
            LET val == EvalPipe(n.pipe, dot, data) IN
            IF val.t = "error" THEN [out |-> <<>>, err |-> TRUE]
            ELSE IF IsTrue(val)
                 THEN ExecNode(n.list, IF n.type = "with" THEN val ELSE dot, data)
                 ELSE ExecElse(n, dot, data)
      [] n.type = "range" ->
            LET val == EvalPipe(n.pipe, dot, data) IN
            IF val.t = "list" /\ val.v # <<>>
            THEN ExecRange(n.list, val.v, 1, data)
            ELSE IF val.t \in {"list", "none"} THEN ExecElse(n, dot, data)
            ELSE [out |-> <<>>, err |-> TRUE]
      [] OTHER -> [out |-> <<>>, err |-> TRUE]

\* template.Execute(w, data) on a tree.
ExecTree(tree, data) == ExecNode(tree, MapVal(data), MapVal(data))

\* ---- deleteNode ----
\* Mutant of CutFn: the Response field itself is deleted as well.
CutFnDeletesResponse(n, cut) ==
    IF n.type = "field" /\ "Response" \in Range(n.ident)
    THEN [del |-> TRUE, cut |-> TRUE]
    ELSE [del |-> cut, cut |-> cut]

\* The predicate Execute hands to deleteNode, with its captured flag: at a
\* FieldNode whose Ident contains "Response" it sets cut and answers false;
\* everywhere else it answers cut.
CutFn(n, cut) ==
    IF n.type = "field" /\ "Response" \in Range(n.ident)
    THEN [del |-> FALSE, cut |-> TRUE]
    ELSE [del |-> cut, cut |-> cut]

RECURSIVE Walk(_, _)
RECURSIVE WalkAll(_, _)
\* walk over a sequence of nodes: the nodes walk keeps, the flag after the
\* last one, and whether a walk panicked.
WalkAll(nodes, cut) ==
    IF nodes = <<>> THEN [nodes |-> <<>>, cut |-> cut, panic |-> FALSE]
    ELSE LET r == Walk(Head(nodes), cut) IN
         IF r.panic THEN [nodes |-> <<>>, cut |-> r.cut, panic |-> TRUE]
         ELSE LET rest == WalkAll(Tail(nodes), r.cut) IN
              [nodes |-> (IF r.node = Nil THEN <<>> ELSE <<r.node>>) \o rest.nodes,
               cut |-> rest.cut, panic |-> rest.panic]

\* walk(node) of deleteNode: the node it returns (Nil for nil), the flag
\* afterwards, and whether a type assertion on a nil result panicked.
Walk(n, cut) ==
    LET f == CutFn(n, cut) IN
    IF f.del THEN [node |-> Nil, cut |-> f.cut, panic |-> FALSE]
    ELSE
    CASE n.type = "list" ->
            LET r == WalkAll(n.nodes, f.cut) IN
            [node |-> ListNode(r.nodes), cut |-> r.cut, panic |-> r.panic]
      [] n.type \in BranchKinds ->
            \* walk(&t.BranchNode): the predicate again, then List, then ElseList
            LET fb == CutFn([type |-> "branch"], f.cut) IN
            IF fb.del THEN [node |-> Nil, cut |-> fb.cut, panic |-> TRUE]
            ELSE LET l == Walk(n.list, fb.cut) IN
                 IF l.panic \/ l.node = Nil
                 THEN [node |-> Nil, cut |-> l.cut, panic |-> TRUE]
                 ELSE IF n.elseList = Nil
                 THEN [node |-> [n EXCEPT !.list = l.node], cut |-> l.cut,
                       panic |-> FALSE]
                 ELSE LET e == Walk(n.elseList, l.cut) IN
                      IF e.panic \/ e.node = Nil
                      THEN [node |-> Nil, cut |-> e.cut, panic |-> TRUE]
                      ELSE [node |-> [n EXCEPT !.list = l.node,
                                               !.elseList = e.node],
                            cut |-> e.cut, panic |-> FALSE]
      [] n.type = "action" ->
            LET r == Walk(n.pipe, f.cut) IN
            IF r.panic \/ r.node = Nil
            THEN [node |-> Nil, cut |-> r.cut, panic |-> r.panic]
            ELSE [node |-> [n EXCEPT !.pipe = r.node], cut |-> r.cut,
                  panic |-> FALSE]
      [] n.type = "pipe" ->
            LET r == WalkAll(n.cmds, f.cut) IN
            IF r.panic \/ Len(r.nodes) < Len(n.cmds)
            THEN [node |-> Nil, cut |-> r.cut, panic |-> r.panic]
            ELSE [node |-> PipeNode(r.nodes), cut |-> r.cut, panic |-> FALSE]
      [] n.type = "command" ->
            \* a command left without arguments makes the pipe return nil
            LET r == WalkAll(n.args, cut) IN
            IF r.panic \/ r.nodes = <<>>
            THEN [node |-> Nil, cut |-> r.cut, panic |-> r.panic]
            ELSE [node |-> CommandNode(r.nodes), cut |-> r.cut, panic |-> FALSE]
      [] OTHER -> [node |-> n, cut |-> f.cut, panic |-> FALSE]

\* deleteNode(t.Template.Root.Copy(), fn) with cut initially false.
deleteNode(tree) == Walk(tree, FALSE)

\* ---- Template.Execute ----
\* The map of a legacy execution.
LegacyData(system, prompt, resp) ==
    ("System" :> StrVal(system)) @@ ("Prompt" :> StrVal(prompt))
        @@ ("Response" :> StrVal(resp))

\* The closure execute() of the legacy loop: one execution into the buffer
\* b with the current triple, which is then reset.
LegacyExecute(tree, st) ==
    LET data == LegacyData(st.system, st.prompt, st.response)
        r == ExecTree(tree, data)
    IN [system |-> <<>>, prompt |-> <<>>, response |-> <<>>,
        b |-> st.b \o r.out, err |-> r.err, renders |-> Append(st.renders, data)]

\* One turn of the legacy loop (the switch on m.Role).
LegacyTurn(tree, st, m) ==
    CASE m.role = "system" ->
            LET s1 == IF st.prompt # <<>> \/ st.response # <<>>
                      THEN LegacyExecute(tree, st) ELSE st
            IN IF s1.err THEN s1 ELSE [s1 EXCEPT !.system = m.content]
      [] m.role = "user" ->
            LET s1 == IF st.response # <<>> THEN LegacyExecute(tree, st) ELSE st
            IN IF s1.err THEN s1 ELSE [s1 EXCEPT !.prompt = m.content]
      [] m.role = "assistant" -> [st EXCEPT !.response = m.content]
      [] OTHER -> st

RECURSIVE LegacyLoop(_, _, _)
\* for _, m := range messages; an execution error returns at once.
LegacyLoop(tree, st, msgs) ==
    IF msgs = <<>> \/ st.err THEN st
    ELSE LegacyLoop(tree, LegacyTurn(tree, st, Head(msgs)), Tail(msgs))

\* What an Execute call did: the mode taken, what it wrote to w, its error
\* ("" for nil, "exec" for an execution error, "panic"), the data of every
\* template execution in order, and the results of collate.
Result(mode, out, err, renders, c, final) ==
    [mode |-> mode, out |-> out, err |-> err, renders |-> renders,
     system |-> c.system, collated |-> c.collated, final |-> final,
     walked |-> Nil, again |-> FALSE]

\* Mutant of Copy: the root itself is handed on.
NoCopy(root) == [node |-> root, shared |-> TRUE]

\* t.Template.Root.Copy(): a deep copy, equal to the root node for node and
\* sharing no node with it.
Copy(root) == [node |-> root, shared |-> FALSE]

\* The legacy part of Execute: system, prompt and response start empty, the
\* turns are walked, and the tree deleteNode returns is executed last; the
\* buffer is copied to w only when nothing failed.  deleteNode rewrites the
\* lists of the tree it is given in place and returns that tree: walked is
\* what it left of the root of the template, when that is what it was given.
ExecuteLegacy(tree, v, c) ==
    LET st == LegacyLoop(tree,
                [system |-> <<>>, prompt |-> <<>>, response |-> <<>>,
                 b |-> <<>>, err |-> FALSE, renders |-> <<>>], c.collated)
    IN IF st.err THEN Result("legacy", <<>>, "exec", st.renders, c, Nil)
       ELSE LET cp == Copy(tree)
                d == deleteNode(cp.node) IN
            IF d.panic THEN Result("legacy", <<>>, "panic", st.renders, c, Nil)
            ELSE LET data == LegacyData(st.system, st.prompt, st.response)
                     r == ExecTree(d.node, data)
                 IN [Result("legacy", IF r.err THEN <<>> ELSE st.b \o r.out,
                            IF r.err THEN "exec" ELSE "",
                            Append(st.renders, data), c, d.node)
                       EXCEPT !.walked = IF cp.shared THEN d.node ELSE Nil]

\* Mutant of StructuredData: the system turns are taken out of Messages.
StructuredDataNoSystem(v, c) ==
    ("System" :> StrVal(c.system))
        @@ ("Messages" :> ListVal(SelectSeq(c.collated,
                                            LAMBDA m : m.role # "system")))
        @@ ("Tools" :> ListVal(v.Tools)) @@ ("Response" :> StrVal(<<>>))

\* The map of the structured execution.
StructuredData(v, c) ==
    ("System" :> StrVal(c.system)) @@ ("Messages" :> ListVal(c.collated))
        @@ ("Tools" :> ListVal(v.Tools)) @@ ("Response" :> StrVal(<<>>))

\* The map of the fill-in-the-middle execution.
FimData(v) ==
    ("Prompt" :> StrVal(v.Prompt)) @@ ("Suffix" :> StrVal(v.Suffix))
        @@ ("Response" :> StrVal(<<>>))

\* One direct execution to w: what was written before an error stays.
ExecuteOnce(mode, tree, data, c) ==
    LET r == ExecTree(tree, data) IN
    Result(mode, r.out, IF r.err THEN "exec" ELSE "", <<data>>, c, Nil)

\* Mutant of Execute: the structured mode is tried before the shortcut.
ExecuteStructuredFirst(tree, v) ==
    LET c == collate(v.Messages) IN
    IF ~v.forceLegacy /\ "messages" \in Vars(tree)
    THEN ExecuteOnce("structured", tree, StructuredData(v, c), c)
    ELSE IF v.Prompt # <<>> /\ v.Suffix # <<>>
    THEN ExecuteOnce("fim", tree, FimData(v), c)
    ELSE ExecuteLegacy(tree, v, c)

\* Template.Execute(w, v)
Execute(tree, v) ==
    LET c == collate(v.Messages) IN
    IF v.Prompt # <<>> /\ v.Suffix # <<>>
    THEN ExecuteOnce("fim", tree, FimData(v), c)
    ELSE IF ~v.forceLegacy /\ "messages" \in Vars(tree)
    THEN ExecuteOnce("structured", tree, StructuredData(v, c), c)
    ELSE ExecuteLegacy(tree, v, c)

\* ---- inputs ----
\* Bound: messages in one Values.
MaxMsgs == 3

MessagePool ==
    { Msg("system", <<"S">>), Msg("user", <<"u">>), Msg("user", <<"v">>),
      Msg("user", <<"h", "i">>), Msg("assistant", <<"y", "o">>),
      Msg("tool", <<"t">>) }

MessageLists == UNION {[1..n -> MessagePool] : n \in 0..MaxMsgs}

\* api.Tools: no tool, or one tool (named by its function).
ToolLists == {<<>>, <<"f">>}

ValuesSet ==
    [Messages : MessageLists, Tools : ToolLists,
     Prompt : {<<>>, <<"w", "o", "r", "l", "d">>},
     Suffix : {<<>>, <<"s", "f", "x">>}, forceLegacy : BOOLEAN]

\* The Values of a later call: a conversation in legacy mode, the same
\* rendered from its messages, and a fill-in-the-middle request.
RepeatValues ==
    { [Messages |-> <<Msg("user", <<"h", "i">>), Msg("assistant", <<"y", "o">>),
                      Msg("user", <<"v">>)>>,
       Tools |-> <<>>, Prompt |-> <<>>, Suffix |-> <<>>, forceLegacy |-> TRUE],
      [Messages |-> <<Msg("system", <<"S">>), Msg("user", <<"u">>)>>,
       Tools |-> <<>>, Prompt |-> <<>>, Suffix |-> <<>>, forceLegacy |-> FALSE],
      [Messages |-> <<>>, Tools |-> <<>>, Prompt |-> <<"w", "o", "r", "l", "d">>,
       Suffix |-> <<"s", "f", "x">>, forceLegacy |-> FALSE] }

\* The parse trees of the template sources.
\* Hello {{ .Prompt }}!
HelloTemplate ==
    ListNode(<<TextNode(<<"H", "e", "l", "l", "o", " ">>), Field(<<"Prompt">>), TextNode(<<"!">>)>>)

\* {{- range .Messages }}{{ .Role }}: {{ .Content }}\n{{ end -}}
RangeTemplate ==
    ListNode(<<BranchNode("range", FieldPipe(<<"Messages">>),
        ListNode(<<Field(<<"Role">>), TextNode(<<":", " ">>),
                   Field(<<"Content">>), TextNode(<<"\n">>)>>), Nil)>>)

\* {{ .Prompt }}   (DefaultTemplate)
PromptTemplate == ListNode(<<Field(<<"Prompt">>)>>)

\* {{ if .System }}{{ .System }} {{ end }}{{ .Prompt }} {{ .Response }}<e>
ChatTemplate ==
    ListNode(<<BranchNode("if", FieldPipe(<<"System">>),
                  ListNode(<<Field(<<"System">>), TextNode(<<" ">>)>>), Nil),
               Field(<<"Prompt">>), TextNode(<<" ">>), Field(<<"Response">>),
               TextNode(<<"<", "e", ">">>)>>)

\* {{ if .Suffix }}<{{ .Prompt }}|{{ .Suffix }}>{{ else }}{{ .Prompt }}{{ end }}
SuffixTemplate ==
    ListNode(<<BranchNode("if", FieldPipe(<<"Suffix">>),
                  ListNode(<<TextNode(<<"<">>), Field(<<"Prompt">>),
                             TextNode(<<"|">>), Field(<<"Suffix">>),
                             TextNode(<<">">>)>>),
                  ListNode(<<Field(<<"Prompt">>)>>))>>)

\* {{ if .System }}s{{ else }}{{ .Response }}{{ end }}{{ .Prompt }}
ElseResponseTemplate ==
    ListNode(<<BranchNode("if", FieldPipe(<<"System">>),
                  ListNode(<<TextNode(<<"s">>)>>),
                  ListNode(<<Field(<<"Response">>)>>)),
               Field(<<"Prompt">>)>>)

\* {{ if .Response }}r{{ end }}{{ .Prompt }}
PipeResponseTemplate ==
    ListNode(<<BranchNode("if", FieldPipe(<<"Response">>),
                  ListNode(<<TextNode(<<"r">>)>>), Nil),
               Field(<<"Prompt">>)>>)

\* {{ if .Prompt }}{{ .Response }}{{ else }}x{{ end }}
ResponseInIfTemplate ==
    ListNode(<<BranchNode("if", FieldPipe(<<"Prompt">>),
                  ListNode(<<Field(<<"Response">>)>>),
                  ListNode(<<TextNode(<<"x">>)>>))>>)

\* {{ with .messages }}m{{ end }}{{ $.System }}
LowerMessagesTemplate ==
    ListNode(<<BranchNode("with", FieldPipe(<<"messages">>),
                  ListNode(<<TextNode(<<"m">>)>>), Nil),
               ActionNode(PipeNode(<<CommandNode(
                   <<VariableNode(<<"$", "System">>)>>)>>))>>)

\* plain text
TextTemplate == ListNode(<<TextNode(<<"p">>)>>)

\* {{ .System.Role }}: a field of a string, which fails to execute
FieldErrorTemplate == ListNode(<<Field(<<"System", "Role">>)>>)

\* {{ if .Tools }}T{{ end }}{{ range .Messages }}{{ .Content }}{{ end }}
ToolsTemplate ==
    ListNode(<<BranchNode("if", FieldPipe(<<"Tools">>),
                  ListNode(<<TextNode(<<"T">>)>>), Nil),
               BranchNode("range", FieldPipe(<<"Messages">>),
                  ListNode(<<Field(<<"Content">>)>>), Nil)>>)

TemplateSources ==
    { HelloTemplate, RangeTemplate, PromptTemplate, ChatTemplate,
      SuffixTemplate, ElseResponseTemplate, PipeResponseTemplate,
      ResponseInIfTemplate, LowerMessagesTemplate, TextTemplate,
      FieldErrorTemplate, ToolsTemplate }

\* ---- Model.CheckCapabilities (server/images.go) ----
\* An error is nil or carries its message, a sequence of words and
\* separators.
NilError == [kind |-> "nil"]

Error(msg) == [kind |-> "error", msg |-> msg]

\* The file at m.ModelPath: absent (os.Open fails), not a model
\* (ggml.Decode fails), a model without the pooling_type key, or with it.
ModelFiles == {"absent", "undecodable", "generative", "pooling"}

\* Capability values: the three constants and one that is none of them.
Capabilities == {"completion", "tools", "insert", "vision"}

KnownCapabilities == {"completion", "tools", "insert"}

\* Bound: capabilities in one request.
MaxCaps == 2

CapabilityLists == UNION {[1..n -> Capabilities] : n \in 0..MaxCaps}

\* Mutant of Unsupported: insert looks for the variable "insert".
UnsupportedByInsertVar(cap, tvars, file) ==
    CASE cap = "completion" -> file = "pooling"
      [] cap = "tools" -> "tools" \notin tvars
      [] cap = "insert" -> "insert" \notin tvars
      [] OTHER -> FALSE

\* The cases of the switch that append an error: whether the capability
\* adds its error to errs.
Unsupported(cap, tvars, file) ==
    CASE cap = "completion" -> file = "pooling"
      [] cap = "tools" -> "tools" \notin tvars
      [] cap = "insert" -> "suffix" \notin tvars
      [] OTHER -> FALSE

RECURSIVE CapabilityLoop(_, _, _, _)
\* for _, cap := range caps: errs grows; a capability that is none of the
\* three returns at once.
CapabilityLoop(caps, errs, tvars, file) ==
    IF caps = <<>> THEN [errs |-> errs, unknown |-> ""]
    ELSE IF Head(caps) \notin KnownCapabilities
    THEN [errs |-> errs, unknown |-> Head(caps)]
    ELSE CapabilityLoop(Tail(caps),
            IF Unsupported(Head(caps), tvars, file)
            THEN Append(errs, Head(caps)) ELSE errs,
            tvars, file)

RECURSIVE JoinWords(_, _)
\* errors.Join(errs...).Error(): the messages separated by newlines.
JoinWords(words, sep) ==
    IF Len(words) = 0 THEN <<>>
    ELSE IF Len(words) = 1 THEN <<words[1]>>
    ELSE <<words[1], sep>> \o JoinWords(Tail(words), sep)

\* m.CheckCapabilities(caps...)
CheckCapabilities(caps, tvars, file) ==
    LET r == CapabilityLoop(caps, <<>>, tvars, file) IN
    IF r.unknown # "" THEN Error(<<"unknown capability:", " ", r.unknown>>)
    ELSE IF r.errs # <<>>
    THEN Error(<<"does not support", " ">> \o JoinWords(r.errs, "\n"))
    ELSE NilError

\* ---- actions ----
\* Parse(s) for a source that parses into src.
TParse ==
    /\ tpc = "new"
    /\ \E src \in TemplateSources :
        /\ tsrc' = src
        /\ tmpl' = Parse(src)
    /\ tpc' = "parsed"
    /\ UNCHANGED <<tv, tres, recollated, cc>>
    /\ UNCHANGED NotTemplate

\* The root of the template after a call that returned res.
RootAfter(root, res) == IF res.walked = Nil THEN root ELSE res.walked

\* t.Execute(w, v)
TExecute ==
    /\ tpc = "parsed"
    /\ \E v \in ValuesSet :
        /\ tv' = v
        /\ tres' = Execute(tmpl, v)
    /\ tmpl' = RootAfter(tmpl, tres')
    /\ tpc' = "executed"
    /\ UNCHANGED <<tsrc, recollated, cc>>
    /\ UNCHANGED NotTemplate

\* A later t.Execute(w, v) on the same template; the calls of a sequence
\* of more than one call take their Values from RepeatValues.
TExecuteAgain ==
    /\ tpc = "executed"
    /\ tv \in RepeatValues
    /\ \E v \in RepeatValues :
        /\ tv' = v
        /\ tres' = [Execute(tmpl, v) EXCEPT !.again = TRUE]
    /\ tmpl' = RootAfter(tmpl, tres')
    /\ recollated' = Nil
    /\ UNCHANGED <<tpc, tsrc, cc>>
    /\ UNCHANGED NotTemplate

\* collate applied to the list the last call collated.
TRecollate ==
    /\ tpc = "executed"
    /\ recollated = Nil
    /\ recollated' = collate(tres.collated)
    /\ UNCHANGED <<tpc, tsrc, tmpl, tv, tres, cc>>
    /\ UNCHANGED NotTemplate

\* m.CheckCapabilities(caps...) on the model that holds the template.
TCheckCapabilities ==
    /\ tpc = "parsed"
    /\ \E caps \in CapabilityLists, file \in ModelFiles :
        cc' = [caps |-> caps, file |-> file,
               err |-> CheckCapabilities(caps, Vars(tmpl), file)]
    /\ tpc' = "checked"
    /\ UNCHANGED <<tsrc, tmpl, tv, tres, recollated>>
    /\ UNCHANGED NotTemplate

NextTemplate ==
    \/ TCheckCapabilities
    \/ TParse
    \/ TExecute
    \/ TExecuteAgain
    \/ TRecollate

StoreIdle ==
    /\ blobs = {}
    /\ manifests = [n \in QualifiedNames |-> NoFile]
    /\ pull = PullIdle
    /\ copy = CopyIdle
    /\ gc = GcIdle
    /\ push = PushIdle
    /\ ops = 0

\* Only the template engine runs.
InitTemplate == TemplateIdle /\ StoreIdle /\ TokenizerIdle /\ PruneIdle /\ ReplIdle /\ DecoderIdle

SpecTemplate == InitTemplate /\ [][NextTemplate]_vars

(***************************************************************************)
(*            THE SENTENCEPIECE TOKENIZER (model/process_text_spm.go)       *)
(*                                                                         *)
(* Text is a sequence of characters. Sep stands for U+2581, the whitespace *)
(* separator; "<s>" and "</s>" stand for the strings of two control        *)
(* tokens. Scores are the float32 scores times ten. Token ids count from   *)
(* zero, as do the indices of the merge nodes.                             *)
(***************************************************************************)
\* spmWhitespaceSep
Sep == "_"

\* replaceWhitespaceBySeperator kept from replacing: a mutant.
keepWhitespace(s) == s

\* replaceWhitespaceBySeperator(s): strings.ReplaceAll(s, " ", Sep)
replaceWhitespaceBySeperator(s) ==
    [i \in DOMAIN s |-> IF s[i] = " " THEN Sep ELSE s[i]]

\* ---- Vocabulary ----
\* Vocabulary.Encode(s): the id of the token whose value is s, or -1.
VocabEncode(vocab, s) ==
    IF \E i \in DOMAIN vocab.values : vocab.values[i] = s
    THEN (CHOOSE i \in DOMAIN vocab.values : vocab.values[i] = s) - 1
    ELSE -1

\* Vocabulary.Decode(id): the value of the token.
VocabDecode(vocab, id) ==
    IF id + 1 \in DOMAIN vocab.values THEN vocab.values[id + 1] ELSE <<>>

\* vocab.Scores[id]
Score(vocab, id) == vocab.scores[id + 1]

\* Vocabulary.SpecialVocabulary(): the values of the control tokens.
SpecialVocabulary(vocab) ==
    LET idx == {i \in DOMAIN vocab.values : vocab.types[i] = "control"}
        RECURSIVE Inc(_)
        Inc(S) == IF S = {} THEN <<>>
                  ELSE LET m == CHOOSE x \in S : \A y \in S : x <= y
                       IN <<vocab.values[m]>> \o Inc(S \ {m})
    IN Inc(idx)

\* ---- Encode: fragmentation ----
\* strings.Index(s, sub), counting from zero; -1 when sub does not occur.
Index(s, sub) ==
    LET at == {i \in 0..(Len(s) - Len(sub)) : SubSeq(s, i + 1, i + Len(sub)) = sub}
    IN IF at = {} THEN -1 ELSE CHOOSE i \in at : \A j \in at : i <= j

Fragment(value, ids) == [value |-> value, ids |-> ids]

RECURSIVE SplitOn(_, _, _)
\* What the loop over the fragments makes of one fragment for one special
\* token: the part before its first occurrence, the token with its id, and
\* the rest, which the loop scans next.
SplitOn(frag, special, id) ==
    IF Len(frag.ids) > 0 THEN <<frag>>
    ELSE LET i == Index(frag.value, special) IN
         IF i < 0 THEN <<frag>>
         ELSE LET rest == SubSeq(frag.value, i + Len(special) + 1, Len(frag.value))
              IN (IF i > 0 THEN <<Fragment(SubSeq(frag.value, 1, i), <<>>)>>
                  ELSE <<>>)
                 \o <<Fragment(special, <<id>>)>>
                 \o (IF rest # <<>> THEN SplitOn(Fragment(rest, <<>>), special, id)
                     ELSE <<>>)

RECURSIVE SplitAll(_, _, _)
SplitAll(frags, special, id) ==
    IF frags = <<>> THEN <<>>
    ELSE SplitOn(Head(frags), special, id) \o SplitAll(Tail(frags), special, id)

RECURSIVE Fragments(_, _, _)
\* The fragments after the loop over the special tokens.
Fragments(frags, specials, vocab) ==
    IF specials = <<>> THEN frags
    ELSE Fragments(SplitAll(frags, Head(specials), VocabEncode(vocab, Head(specials))),
                   Tail(specials), vocab)

\* ---- Encode: pre-tokenization ----
\* The pre-tokenizer expressions of the modelled tokenizers.
PreAny == ".+"

PreRuns == "[^ ]+| +"

PreNonSpace == "[^ ]+"

Pres == {PreAny, PreRuns, PreNonSpace}

RECURSIVE Runs(_)
\* The maximal runs of spaces and of non-spaces of s, in order.
Runs(s) ==
    IF s = <<>> THEN <<>>
    ELSE LET same(i) == (s[i] = " ") = (s[1] = " ")
             k == CHOOSE n \in 1..Len(s) :
                    /\ \A i \in 1..n : same(i)
                    /\ n = Len(s) \/ ~same(n + 1)
         IN <<SubSeq(s, 1, k)>> \o Runs(SubSeq(s, k + 1, Len(s)))

\* split(s): the successive matches of the pre-tokenizer expression in s.
split(pre, s) ==
    CASE pre = PreAny -> IF s = <<>> THEN <<>> ELSE <<s>>
      [] pre = PreRuns -> Runs(s)
      [] OTHER -> SelectSeq(Runs(s), LAMBDA r : r[1] # " ")

RECURSIVE WorkOf(_, _)
\* The fragments in order, each plain fragment replaced by its splits.
WorkOf(frags, pre) ==
    IF frags = <<>> THEN <<>>
    ELSE LET f == Head(frags)
             sp == split(pre, f.value)
         IN (IF Len(f.ids) > 0 THEN <<[kind |-> "ids", ids |-> f.ids]>>
             ELSE [i \in DOMAIN sp |-> [kind |-> "split", value |-> sp[i]]])
            \o WorkOf(Tail(frags), pre)

\* ---- Encode: the merge loop ----
\* merges := make([]merge, len(runes)): node r holds rune r and links r-1, r+1
InitMerges(runes) ==
    [r \in 0..(Len(runes) - 1) |-> [p |-> r - 1, n |-> r + 1, runes |-> <<runes[r + 1]>>]]

\* pairwise(a, b): the candidate for nodes a and b, as a sequence of at most
\* one candidate (none when a or b is out of range or the concatenation is
\* no token).
pairwise(vocab, runes, merges, a, b) ==
    IF a < 0 \/ b >= Len(runes) THEN <<>>
    ELSE LET id == VocabEncode(vocab, merges[a].runes \o merges[b].runes) IN
         IF id >= 0 THEN <<[a |-> a, b |-> b, score |-> Score(vocab, id)]>>
         ELSE <<>>

RECURSIVE InitialPairs(_, _, _, _)
\* for i := range len(runes) - 1: enqueue pairwise(i, i+1)
InitialPairs(vocab, runes, merges, i) ==
    IF i >= Len(runes) - 1 THEN <<>>
    ELSE pairwise(vocab, runes, merges, i, i + 1)
            \o InitialPairs(vocab, runes, merges, i + 1)

\* The queue's comparator: x comes before y.
Before(x, y) == x.score > y.score \/ (x.score = y.score /\ x.a < y.a)

\* The positions Dequeue may return: those no other candidate comes before.
\* The comparator never answers "equal", so among candidates of equal score
\* and equal left index the queue may return any.
Heads(pq) == {i \in DOMAIN pq : \A j \in DOMAIN pq : ~Before(pq[j], pq[i])}

Without(pq, i) == SubSeq(pq, 1, i - 1) \o SubSeq(pq, i + 1, Len(pq))

\* Mutant of Merged: the right node keeps its runes.
MergedKeepsRight(vocab, runes, merges, pair) ==
    LET left == merges[pair.a]
        right == merges[pair.b]
    IN IF Len(left.runes) = 0 \/ Len(right.runes) = 0
       THEN [merges |-> merges, enq |-> <<>>]
       ELSE IF VocabEncode(vocab, left.runes \o right.runes) < 0
                 \/ Len(left.runes) + Len(right.runes) > Len(runes)
       THEN [merges |-> merges, enq |-> <<>>]
       ELSE [merges |-> [merges EXCEPT ![pair.a].runes = left.runes \o right.runes],
             enq |-> <<>>]

\* Mutant of Merged: the node after the right one keeps its link to it.
MergedNoPrevLink(vocab, runes, merges, pair) ==
    LET left == merges[pair.a]
        right == merges[pair.b]
    IN IF Len(left.runes) = 0 \/ Len(right.runes) = 0
       THEN [merges |-> merges, enq |-> <<>>]
       ELSE IF VocabEncode(vocab, left.runes \o right.runes) < 0
       THEN [merges |-> merges, enq |-> <<>>]
       ELSE LET m1 == [merges EXCEPT ![pair.a].runes = left.runes \o right.runes,
                                     ![pair.b].runes = <<>>,
                                     ![pair.a].n = right.n]
            IN [merges |-> m1,
                enq |-> pairwise(vocab, runes, m1, m1[pair.a].p, pair.a)
                        \o pairwise(vocab, runes, m1, pair.a, m1[pair.a].n)]

\* Mutant of Merged: a candidate whose nodes make no token is enqueued again.
MergedRequeues(vocab, runes, merges, pair) ==
    LET left == merges[pair.a]
        right == merges[pair.b]
    IN IF Len(left.runes) = 0 \/ Len(right.runes) = 0
       THEN [merges |-> merges, enq |-> <<pair>>]
       ELSE IF VocabEncode(vocab, left.runes \o right.runes) < 0
       THEN [merges |-> merges, enq |-> <<pair>>]
       ELSE LET m1 == [merges EXCEPT ![pair.a].runes = left.runes \o right.runes,
                                     ![pair.b].runes = <<>>,
                                     ![pair.a].n = right.n]
                m2 == IF right.n < Len(runes)
                      THEN [m1 EXCEPT ![right.n].p = pair.a] ELSE m1
            IN [merges |-> m2,
                enq |-> pairwise(vocab, runes, m2, m2[pair.a].p, pair.a)
                        \o pairwise(vocab, runes, m2, pair.a, m2[pair.a].n)]

\* One iteration of `for !pq.Empty()` with the candidate `pair` dequeued.
Merged(vocab, runes, merges, pair) ==
    LET left == merges[pair.a]
        right == merges[pair.b]
    IN IF Len(left.runes) = 0 \/ Len(right.runes) = 0
       THEN [merges |-> merges, enq |-> <<>>]
       ELSE IF VocabEncode(vocab, left.runes \o right.runes) < 0
       THEN [merges |-> merges, enq |-> <<>>]
       ELSE LET m1 == [merges EXCEPT ![pair.a].runes = left.runes \o right.runes,
                                     ![pair.b].runes = <<>>,
                                     ![pair.a].n = right.n]
                m2 == IF right.n < Len(runes)
                      THEN [m1 EXCEPT ![right.n].p = pair.a] ELSE m1
            IN [merges |-> m2,
                enq |-> pairwise(vocab, runes, m2, m2[pair.a].p, pair.a)
                        \o pairwise(vocab, runes, m2, pair.a, m2[pair.a].n)]

RECURSIVE EmittedBackwards(_, _, _)
\* Mutant of Emitted: the surviving merges are emitted from right to left.
EmittedBackwards(vocab, merges, r) ==
    IF r \notin DOMAIN merges THEN <<>>
    ELSE LET id == VocabEncode(vocab, merges[r].runes) IN
         EmittedBackwards(vocab, merges, r + 1)
         \o (IF Len(merges[r].runes) > 0 /\ id >= 0 THEN <<id>> ELSE <<>>)

RECURSIVE Emitted(_, _, _)
\* The ids of the surviving merges, in index order; a merge whose runes are
\* no token is skipped.
Emitted(vocab, merges, r) ==
    IF r \notin DOMAIN merges THEN <<>>
    ELSE LET id == VocabEncode(vocab, merges[r].runes) IN
         (IF Len(merges[r].runes) > 0 /\ id >= 0 THEN <<id>> ELSE <<>>)
         \o Emitted(vocab, merges, r + 1)

\* Mutant of Bookends: EOS is never appended.
BookendsNoEOS(vocab, ids, addSpecial) ==
    IF addSpecial /\ Len(ids) > 0
    THEN (IF vocab.AddBOS THEN <<vocab.BOS>> ELSE <<>>) \o ids
    ELSE ids

\* The special bookends.
Bookends(vocab, ids, addSpecial) ==
    IF addSpecial /\ Len(ids) > 0
    THEN (IF vocab.AddBOS THEN <<vocab.BOS>> ELSE <<>>) \o ids
            \o (IF vocab.AddEOS THEN <<vocab.EOS>> ELSE <<>>)
    ELSE ids

RECURSIVE Decode(_, _)
\* Decode(ids): the tokens' values with Sep replaced by a space, concatenated.
Decode(vocab, ids) ==
    IF ids = <<>> THEN <<>>
    ELSE LET data == VocabDecode(vocab, Head(ids)) IN
         [i \in DOMAIN data |-> IF data[i] = Sep THEN " " ELSE data[i]]
            \o Decode(vocab, Tail(ids))

\* ---- inputs ----
\* Bound: characters in one text.
MaxLen == 3

Alphabet == {"a", "b", " ", Sep, "<s>"}

\* The texts of up to MaxLen characters, and those of one character more
\* made of a and b alone.
Texts ==
    UNION {[1..n -> Alphabet] : n \in 0..MaxLen} \cup [1..(MaxLen + 1) -> {"a", "b"}]

\* a, b, ab and the separator
VocabPlain ==
    [values |-> << <<"a">>, <<"b">>, <<"a", "b">>, <<Sep>> >>,
     scores |-> <<-10, -10, -5, -100>>,
     types |-> <<"normal", "normal", "normal", "normal">>,
     BOS |-> 0, EOS |-> 0, AddBOS |-> FALSE, AddEOS |-> FALSE]

\* two control tokens, and merges whose candidates go stale
VocabChat ==
    [values |-> << <<"<s>">>, <<"</s>">>, <<"a">>, <<"b">>, <<Sep>>,
                   <<"a", "b">>, <<"b", "a">>, <<"a", "b", "a">>, <<Sep, "a">> >>,
     scores |-> <<0, 0, -10, -10, -20, -5, -3, -1, -4>>,
     types |-> <<"control", "control", "normal", "normal", "normal",
                 "normal", "normal", "normal", "normal">>,
     BOS |-> 0, EOS |-> 1, AddBOS |-> TRUE, AddEOS |-> TRUE]

\* no token for b; candidates of equal score
VocabSparse ==
    [values |-> << <<"<s>">>, <<"a">>, <<Sep>>, <<Sep, "a">>, <<"a", "a">> >>,
     scores |-> <<0, -10, -20, -5, -5>>,
     types |-> <<"control", "normal", "normal", "normal", "normal">>,
     BOS |-> 0, EOS |-> 0, AddBOS |-> TRUE, AddEOS |-> FALSE]

\* a longer token that scores below the tokens it is made of
VocabLong ==
    [values |-> << <<"<s>">>, <<"a">>, <<"b">>, <<"a", "b">>, <<"b", "a">>,
                   <<"a", "b", "a">> >>,
     scores |-> <<0, -10, -10, -5, -3, -8>>,
     types |-> <<"control", "normal", "normal", "normal", "normal", "normal">>,
     BOS |-> 0, EOS |-> 0, AddBOS |-> FALSE, AddEOS |-> FALSE]

Vocabularies == {VocabPlain, VocabChat, VocabSparse, VocabLong}

\* The number of leading tokens NewSentencePieceModel logs.
LoggedTokens == 5

\* How far the capacity of the vocabulary's slices may exceed their length.
SpareCapacity == {0, 1}

\* ---- actions ----
\* NewSentencePieceModel(pre, vocab). Its first statement slices Values,
\* Scores and Types to [:5], which panics when their capacity is below 5.
NewSentencePieceModel ==
    /\ tk.pc = "idle"
    /\ \E vocab \in Vocabularies, pre \in Pres, spare \in SpareCapacity :
        tk' = [tk EXCEPT !.pc = IF Len(vocab.values) + spare < LoggedTokens
                                 THEN "panicked" ELSE "ready",
                         !.vocab = vocab, !.pre = pre]
    /\ UNCHANGED NotTokenizer

\* Encode(s, addSpecial) up to the loop over the fragments.
EncodeStart ==
    /\ tk.pc = "ready"
    /\ \E s \in Texts, addSpecial \in BOOLEAN :
        tk' = [tk EXCEPT !.pc = "fragments", !.s = s, !.addSpecial = addSpecial,
                         !.todo = WorkOf(Fragments(<<Fragment(s, <<>>)>>,
                                            SpecialVocabulary(tk.vocab), tk.vocab),
                                         tk.pre),
                         !.ids = <<>>]
    /\ UNCHANGED NotTokenizer

\* A fragment with ids: they are appended as they are.
EncodeSpecial ==
    /\ tk.pc = "fragments"
    /\ tk.todo # <<>>
    /\ Head(tk.todo).kind = "ids"
    /\ tk' = [tk EXCEPT !.ids = @ \o Head(tk.todo).ids, !.todo = Tail(@)]
    /\ UNCHANGED NotTokenizer

\* A split whose substituted form is a token: its id is appended.
EncodeWhole ==
    /\ tk.pc = "fragments"
    /\ tk.todo # <<>>
    /\ Head(tk.todo).kind = "split"
    /\ LET id == VocabEncode(tk.vocab, replaceWhitespaceBySeperator(Head(tk.todo).value))
       IN /\ id >= 0
          /\ tk' = [tk EXCEPT !.ids = Append(@, id), !.todo = Tail(@)]
    /\ UNCHANGED NotTokenizer

\* Any other split: its runes, the merge nodes and the first candidates.
MergeInit ==
    /\ tk.pc = "fragments"
    /\ tk.todo # <<>>
    /\ Head(tk.todo).kind = "split"
    /\ LET runes == replaceWhitespaceBySeperator(Head(tk.todo).value)
           merges == InitMerges(runes)
       IN /\ VocabEncode(tk.vocab, runes) < 0
          /\ tk' = [tk EXCEPT !.pc = "merging", !.runes = runes, !.merges = merges,
                              !.pq = InitialPairs(tk.vocab, runes, merges, 0),
                              !.todo = Tail(@)]
    /\ UNCHANGED NotTokenizer

\* One iteration of the merge loop.
MergePop ==
    /\ tk.pc = "merging"
    /\ tk.pq # <<>>
    /\ \E i \in Heads(tk.pq) :
        LET r == Merged(tk.vocab, tk.runes, tk.merges, tk.pq[i])
        IN tk' = [tk EXCEPT !.merges = r.merges, !.pq = Without(tk.pq, i) \o r.enq]
    /\ UNCHANGED NotTokenizer

\* The queue is empty: the surviving merges are emitted.
MergeEmit ==
    /\ tk.pc = "merging"
    /\ tk.pq = <<>>
    /\ tk' = [tk EXCEPT !.pc = "fragments",
                        !.ids = @ \o Emitted(tk.vocab, tk.merges, 0),
                        !.runes = <<>>, !.merges = <<>>]
    /\ UNCHANGED NotTokenizer

\* After the last fragment: the bookends, and Encode returns ids.
EncodeReturn ==
    /\ tk.pc = "fragments"
    /\ tk.todo = <<>>
    /\ tk' = [tk EXCEPT !.pc = "encoded", !.body = tk.ids,
                        !.ids = Bookends(tk.vocab, tk.ids, tk.addSpecial)]
    /\ UNCHANGED NotTokenizer

\* Decode(ids) on what Encode returned.
DecodeEncoded ==
    /\ tk.pc = "encoded"
    /\ tk' = [tk EXCEPT !.pc = "decoded", !.decoded = Decode(tk.vocab, tk.ids)]
    /\ UNCHANGED NotTokenizer

NextTokenizer ==
    \/ NewSentencePieceModel
    \/ EncodeStart
    \/ EncodeSpecial
    \/ EncodeWhole
    \/ MergeInit
    \/ MergePop
    \/ MergeEmit
    \/ EncodeReturn
    \/ DecodeEncoded

\* Only the tokenizer runs.
InitTokenizer == TokenizerIdle /\ StoreIdle /\ TemplateIdle /\ PruneIdle /\ ReplIdle /\ DecoderIdle

SpecTokenizer == InitTokenizer /\ [][NextTokenizer]_vars

\* The merge loop is sequential code: while it can take a step it takes it.
SpecTokenizerFair == SpecTokenizer /\ WF_vars(MergePop \/ MergeEmit)

(***************************************************************************)
(*                 PruneDirectory (server/images.go 460-491)               *)
(*                                                                         *)
(* A directory tree is a set of numbered nodes below one enclosing         *)
(* directory, node 0.  Every node has a parent with a smaller number, so   *)
(* the numbering is also the order in which os.ReadDir lists the entries   *)
(* of a directory.  A node is a regular file, a directory, a symbolic      *)
(* link, a directory that cannot be read ("locked": os.ReadDir fails), a   *)
(* directory that cannot be removed ("busy": os.Remove fails), or does    *)
(* not exist ("none").  Every symbolic link of the tree points at fs.to.   *)
(***************************************************************************)

\* Bound: the nodes of a tree.
MaxNodes == 3

Nodes == 1..MaxNodes

Kinds == {"none", "file", "dir", "link", "locked", "busy"}

\* What os.Lstat reports as a directory that is not a symbolic link.
DirKinds == {"dir", "locked", "busy"}

Parents == {p \in [Nodes -> 0..(MaxNodes - 1)] : \A n \in Nodes : p[n] < n}

\* Entries live in directories that can be listed; a node that does not
\* exist hangs nowhere.
WellFormed(k, p) ==
    \A n \in Nodes :
        IF k[n] = "none" THEN p[n] = 0
        ELSE p[n] # 0 => k[p[n]] \in {"dir", "busy"}

Trees ==
    {[kind |-> k, parent |-> p, to |-> 1] :
        <<k, p>> \in {kp \in [Nodes -> Kinds] \X Parents : WellFormed(kp[1], kp[2])}}

\* os.ReadDir(path) returned at least one entry.
HasEntries(fs, n) == \E c \in Nodes : fs.parent[c] = n /\ fs.kind[c] # "none"

Returned(fs, err) == [fs |-> fs, err |-> err]

RECURSIVE PruneDirectory(_, _), PruneDirectoryStat(_, _), PruneEntries(_, _, _)

\* Mutant of PruneDirectory: os.Stat in place of os.Lstat, so that a
\* symbolic link to a directory is taken for that directory.
PruneDirectoryStat(fs, n) ==
    LET t == IF fs.kind[n] = "link" THEN fs.to ELSE n IN
    IF fs.kind[n] = "none" \/ fs.kind[t] = "none" THEN Returned(fs, "stat")
    ELSE IF fs.kind[t] \notin DirKinds THEN Returned(fs, "")
    ELSE IF fs.kind[t] = "locked" THEN Returned(fs, "readdir")
    ELSE LET r == PruneEntries(fs, t, t + 1) IN
         IF r.err # "" THEN r
         ELSE IF HasEntries(r.fs, t) THEN r
         ELSE IF fs.kind[n] = "busy" THEN Returned(r.fs, "remove")
         ELSE Returned([r.fs EXCEPT !.kind[n] = "none"], "")

\* PruneDirectory(path): the tree it leaves and the error it returns.
PruneDirectory(fs, n) ==
    IF fs.kind[n] = "none" THEN Returned(fs, "lstat")
    ELSE IF fs.kind[n] \notin DirKinds THEN Returned(fs, "")
    ELSE IF fs.kind[n] = "locked" THEN Returned(fs, "readdir")
    ELSE LET r == PruneEntries(fs, n, n + 1) IN
         IF r.err # "" THEN r
         ELSE IF HasEntries(r.fs, n) THEN r
         ELSE IF fs.kind[n] = "busy" THEN Returned(r.fs, "remove")
         ELSE Returned([r.fs EXCEPT !.kind[n] = "none"], "")

\* The loop over the entries of n, from entry c on: the first error ends it.
PruneEntries(fs, n, c) ==
    IF c > MaxNodes THEN Returned(fs, "")
    ELSE IF fs.parent[c] # n \/ fs.kind[c] = "none" THEN PruneEntries(fs, n, c + 1)
    ELSE LET r == PruneDirectory(fs, c) IN
         IF r.err # "" THEN r ELSE PruneEntries(r.fs, n, c + 1)

\* One call of PruneDirectory on a node of the tree.
PruneDirectoryCall ==
    /\ pd.pc = "called"
    /\ LET r == PruneDirectory(pd.fs, pd.path) IN
       pd' = [pd EXCEPT !.pc = "returned", !.after = r.fs, !.err = r.err]
    /\ UNCHANGED NotPrune

NextPrune == PruneDirectoryCall

InitPrune ==
    /\ pd \in {[pc |-> "called", fs |-> f, path |-> n, after |-> f, err |-> ""] :
                  f \in Trees, n \in Nodes}
    /\ StoreIdle /\ TemplateIdle /\ TokenizerIdle /\ ReplIdle /\ DecoderIdle

SpecPrune == InitPrune /\ [][NextPrune]_vars

(***************************************************************************)
(*          THE INTERACTIVE SESSION (cmd/interactive.go 32-471)            *)
(*                                                                         *)
(* Text is a sequence of one-character strings.  One step of the session   *)
(* is one turn of the loop of generateInteractive: a line is read and      *)
(* handled up to the call of chat, and the return of chat is the next      *)
(* step.  Calls that leave the process (ListHandler, loadOrUnloadModel,    *)
(* client.Create, client.Show, api.FormatParams, the image files, chat)    *)
(* return an outcome that the step draws from Outcomes.  What the handler  *)
(* of a line prints is kept, as the formats printed, until the next step.  *)
(***************************************************************************)

\* Bound: lines read in one session.
MaxLines == 3

TripleQuote == <<"\"", "\"", "\"">>

NewLine == <<"\n">>

Space == <<" ">>

HasPrefix(str, prefix) ==
    Len(str) >= Len(prefix) /\ SubSeq(str, 1, Len(prefix)) = prefix

HasSuffix(str, suffix) ==
    /\ Len(str) >= Len(suffix)
    /\ SubSeq(str, Len(str) - Len(suffix) + 1, Len(str)) = suffix

TrimPrefix(str, prefix) ==
    IF HasPrefix(str, prefix) THEN SubSeq(str, Len(prefix) + 1, Len(str)) ELSE str

CutPrefix(str, prefix) == [rest |-> TrimPrefix(str, prefix), ok |-> HasPrefix(str, prefix)]

CutSuffix(str, suffix) ==
    [rest |-> IF HasSuffix(str, suffix)
              THEN SubSeq(str, 1, Len(str) - Len(suffix)) ELSE str,
     ok |-> HasSuffix(str, suffix)]

IsSpace(c) == c \in {" ", "\n"}

RECURSIVE FieldsFrom(_, _, _)

\* strings.Fields, reading str from position i with the word cur begun.
FieldsFrom(str, i, cur) ==
    IF i > Len(str) THEN (IF cur = <<>> THEN <<>> ELSE <<cur>>)
    ELSE IF IsSpace(str[i])
         THEN (IF cur = <<>> THEN <<>> ELSE <<cur>>) \o FieldsFrom(str, i + 1, <<>>)
         ELSE FieldsFrom(str, i + 1, Append(cur, str[i]))

Fields(str) == FieldsFrom(str, 1, <<>>)

RECURSIVE ReplaceAll(_, _)

\* strings.ReplaceAll(str, old, "")
ReplaceAll(str, old) ==
    IF str = <<>> \/ old = <<>> THEN str
    ELSE IF HasPrefix(str, old) THEN ReplaceAll(TrimPrefix(str, old), old)
    ELSE <<Head(str)>> \o ReplaceAll(Tail(str), old)

RECURSIVE TrimLeft(_), TrimRight(_)

TrimLeft(str) ==
    IF str # <<>> /\ IsSpace(Head(str)) THEN TrimLeft(Tail(str)) ELSE str

TrimRight(str) ==
    IF str # <<>> /\ IsSpace(str[Len(str)])
    THEN TrimRight(SubSeq(str, 1, Len(str) - 1)) ELSE str

TrimSpace(str) == TrimRight(TrimLeft(str))

\* api.Message
Message(role, content) == [Role |-> role, Content |-> content, Images |-> <<>>]

\* The image files named in input: its words that are a path to a .jpg or
\* .png file.
extractFileNames(input) ==
    LET words == Fields(input) IN
    SelectSeq(words, LAMBDA w :
        /\ HasPrefix(w, <<"/">>) \/ HasPrefix(w, <<".", "/">>)
        /\ HasSuffix(w, <<".", "p", "n", "g">>) \/ HasSuffix(w, <<".", "j", "p", "g">>))

RECURSIVE StripFiles(_, _)

StripFiles(input, files) ==
    IF files = <<>> THEN input
    ELSE StripFiles(ReplaceAll(input, Head(files)), Tail(files))

\* extractFileData(input): files that do not exist are passed over and stay
\* in the text ("soft"); a file that cannot be read is an error;
\* otherwise every named file becomes an image and leaves the text.
extractFileData(input, out) ==
    LET files == extractFileNames(input) IN
    IF files = <<>> \/ out = "soft"
    THEN [msg |-> TrimSpace(input), images |-> <<>>, err |-> ""]
    ELSE IF out \in {"error", "fatal"}
    THEN [msg |-> <<>>, images |-> <<>>, err |-> "image"]
    ELSE [msg |-> TrimSpace(StripFiles(input, files)), images |-> files, err |-> ""]

\* What an outside call of a handler may return: nil with an answer, nil
\* with an empty answer, the error the handler looks for and goes on after
\* ("not found" for /load, an invalid name for /save, a missing image file),
\* another error that is not fatal, a fatal error (authentication or
\* configuration).
Outcomes == {"ok", "empty", "soft", "error", "fatal"}

Failed(out) == out \in {"soft", "error", "fatal"}

\* fmt.Println and fmt.Printf of a handler: the format, and the options
\* printed with it.
Said(text, options) == [text |-> text, options |-> options]

Say(r, text) == [r EXCEPT !.printed = Append(@, Said(text, {}))]

\* How a case of the switch ends: with continue, with return, or by falling
\* out of the switch to the sending of the buffer.
Continue(r) == [r |-> r, go |-> "continue"]

\* generateInteractive returned err: the session is over, what is left is
\* the error with the outcome it came from, the line that ended it and what
\* was printed on the way.
Exited(r, err) ==
    [NoSession EXCEPT !.pc = "exited", !.err = err, !.event = r.event,
                      !.line = r.line, !.pasting = r.pasting,
                      !.printed = r.printed,
                      !.out = IF err = "" THEN "" ELSE r.out]

Return(r, err) == [r |-> Exited(r, err), go |-> "return"]

Fall(r) == [r |-> r, go |-> "fall"]

\* case multiline != MultilineNone (154-173)
CaseMultiline(r, line) ==
    LET c == CutSuffix(line, TripleQuote)
        text == r.sb \o c.rest
    IN IF ~c.ok THEN Continue([r EXCEPT !.sb = text \o NewLine])
       ELSE IF r.multiline = "MultilineSystem"
       THEN Fall(Say([r EXCEPT !.sb = text,
                               !.System = text,
                               !.Messages = Append(@, Message("system", text)),
                               !.multiline = "MultilineNone",
                               !.UseAlt = FALSE],
                     "Set system message."))
       ELSE Fall([r EXCEPT !.sb = text,
                           !.multiline = "MultilineNone",
                           !.UseAlt = FALSE])

\* case strings.HasPrefix(line, `"""`) (174-185)
CaseTripleQuote(r, line) ==
    LET c == CutSuffix(TrimPrefix(line, TripleQuote), TripleQuote) IN
    IF c.ok THEN Fall([r EXCEPT !.sb = @ \o c.rest])
    ELSE Fall([r EXCEPT !.sb = @ \o c.rest \o NewLine,
                        !.multiline = "MultilinePrompt",
                        !.UseAlt = TRUE])

\* case strings.HasPrefix(line, "/list") (189-193)
CaseList(r, out) == IF Failed(out) THEN Return(r, "list") ELSE Fall(r)

\* case strings.HasPrefix(line, "/load") (194-210)
CaseLoad(r, line, out) ==
    LET args == Fields(line) IN
    IF Len(args) # 2 THEN Continue(Say(r, "Usage: /load <modelname>"))
    ELSE LET loaded == Say([r EXCEPT !.Model = args[2], !.Messages = <<>>],
                           "Loading model '%s'")
         IN IF out \in {"error", "fatal"} THEN Return(loaded, "load")
            ELSE IF out = "soft" THEN Continue(Say(loaded, "error: %v"))
            ELSE Continue(loaded)

\* case strings.HasPrefix(line, "/save") (211-235)
CaseSave(r, line, out) ==
    LET args == Fields(line) IN
    IF Len(args) # 2 THEN Continue(Say(r, "Usage: /save <modelname>"))
    ELSE IF out \in {"error", "fatal"} THEN Return(r, "save")
    ELSE IF out = "soft"
    THEN Continue(Say(r, "error: The model name '%s' is invalid"))
    ELSE Continue(Say(r, "Created new model '%s'"))

\* Mutant of CaseClear: the history is emptied, system message included.
CaseClearAll(r) == Continue([r EXCEPT !.Messages = <<>>])

\* case strings.HasPrefix(line, "/clear") (236-243)
CaseClear(r) ==
    Continue(Say([r EXCEPT !.Messages = IF r.System # <<>>
                                        THEN <<Message("system", r.System)>>
                                        ELSE <<>>],
                 "Cleared session context"))

\* opts.Options[key] = value
SetOption(options, key, value) ==
    {o \in options : o[1] # key} \cup {<<key, value>>}

\* case "system" of /set (291-334)
CaseSetSystem(r, args) ==
    IF Len(args) < 3 THEN Continue(Say(r, "usageSet"))
    ELSE LET joined == Join(SubSeq(args, 3, Len(args)), Space)
             p == CutPrefix(joined, TripleQuote)
             q == CutSuffix(p.rest, TripleQuote)
             closed == ~p.ok \/ q.ok
             text == r.sb \o (IF p.ok THEN q.rest ELSE p.rest)
             msg == Message("system", text)
             n == Len(r.Messages)
         IN IF ~closed
            THEN Continue([r EXCEPT !.multiline = "MultilineSystem",
                                    !.sb = text,
                                    !.UseAlt = TRUE])
            ELSE Continue(Say([r EXCEPT
                    !.multiline = "MultilineNone",
                    !.System = text,
                    !.Messages = IF n > 0 /\ r.Messages[n].Role = "system"
                                 THEN [@ EXCEPT ![n] = msg]
                                 ELSE Append(@, msg),
                    !.sb = <<>>], "Set system message."))

\* api.FormatParams on the values given for one parameter: the value in the
\* type of the parameter.
FormatParams(params) == [formatted |-> params]

\* case "parameter" of /set (278-290)
CaseSetParameter(r, args, out) ==
    IF Len(args) < 4 THEN Continue(Say(r, "usageParameters"))
    ELSE IF Failed(out) THEN Continue(Say(r, "Couldn't set parameter: %q"))
    ELSE LET value == FormatParams(SubSeq(args, 4, Len(args))) IN
         Fall([r EXCEPT
                 !.printed = Append(@, Said("Set parameter '%s' to '%s'",
                                            {<<args[3], value>>})),
                 !.Options = SetOption(@, args[3], value)])

\* case strings.HasPrefix(line, "/set") (244-340)
CaseSet(r, line, out) ==
    LET args == Fields(line) IN
    IF Len(args) <= 1 THEN Fall(Say(r, "usageSet"))
    ELSE IF args[2] \in {<<"h", "i", "s", "t", "o", "r", "y">>, <<"n", "o", "h", "i", "s", "t", "o", "r", "y">>} THEN Fall(r)
    ELSE IF args[2] = <<"w", "o", "r", "d", "w", "r", "a", "p">> THEN Fall(Say(r, "Set 'wordwrap' mode."))
    ELSE IF args[2] = <<"n", "o", "w", "o", "r", "d", "w", "r", "a", "p">> THEN Fall(Say(r, "Set 'nowordwrap' mode."))
    ELSE IF args[2] = <<"v", "e", "r", "b", "o", "s", "e">>
    THEN (IF Failed(out) THEN Return(r, "flag") ELSE Fall(Say(r, "Set 'verbose' mode.")))
    ELSE IF args[2] = <<"q", "u", "i", "e", "t">>
    THEN (IF Failed(out) THEN Return(r, "flag") ELSE Fall(Say(r, "Set 'quiet' mode.")))
    ELSE IF args[2] = <<"f", "o", "r", "m", "a", "t">>
    THEN (IF Len(args) < 3 \/ args[3] # <<"j", "s", "o", "n">>
          THEN Fall(Say(r, "Invalid or missing format."))
          ELSE Fall(Say([r EXCEPT !.Format = args[3]], "Set format to '%s' mode.")))
    ELSE IF args[2] = <<"n", "o", "f", "o", "r", "m", "a", "t">>
    THEN Fall(Say([r EXCEPT !.Format = <<>>], "Disabled format."))
    ELSE IF args[2] = <<"p", "a", "r", "a", "m", "e", "t", "e", "r">> THEN CaseSetParameter(r, args, out)
    ELSE IF args[2] = <<"s", "y", "s", "t", "e", "m">> THEN CaseSetSystem(r, args)
    ELSE Fall(Say(r, "Unknown command '/set %s'. Type /? for help"))

\* case "parameters" of /show (371-384); empty: resp.Parameters == ""
ShowParameters(r, empty) ==
    IF empty THEN Say(r, "No parameters were specified for this model.")
    ELSE LET user == IF r.Options # {}
                     THEN [r EXCEPT !.printed =
                              Append(@, Said("User defined parameters:", r.Options))]
                     ELSE r
         IN Say(user, "Model defined parameters:")

\* case strings.HasPrefix(line, "/show") (341-405); empty: the field of the
\* answer of client.Show that the command prints is "".
CaseShow(r, line, out) ==
    LET args == Fields(line)
        empty == out = "empty"
    IN IF Len(args) <= 1 THEN Fall(Say(r, "usageShow"))
       ELSE IF Failed(out) THEN Return(Say(r, "error: couldn't get model"), "show")
       ELSE IF args[2] = <<"i", "n", "f", "o">> THEN Fall(Say(r, "showInfo"))
       ELSE IF args[2] = <<"l", "i", "c", "e", "n", "s", "e">>
       THEN Fall(Say(r, IF empty THEN "No license was specified for this model."
                        ELSE "resp.License"))
       ELSE IF args[2] = <<"m", "o", "d", "e", "l", "f", "i", "l", "e">> THEN Fall(Say(r, "resp.Modelfile"))
       ELSE IF args[2] = <<"p", "a", "r", "a", "m", "e", "t", "e", "r", "s">> THEN Fall(ShowParameters(r, empty))
       ELSE IF args[2] = <<"s", "y", "s", "t", "e", "m">>
       THEN Fall(Say(r, IF r.System # <<>> THEN "opts.System"
                        ELSE IF ~empty THEN "resp.System"
                        ELSE "No system message was specified for this model."))
       ELSE IF args[2] = <<"t", "e", "m", "p", "l", "a", "t", "e">>
       THEN Fall(Say(r, IF empty THEN "No prompt template was specified for this model."
                        ELSE "resp.Template"))
       ELSE Fall(Say(r, "Unknown command '/show %s'. Type /? for help"))

\* case strings.HasPrefix(line, "/") (422-440)
CaseSlash(r, line) ==
    LET args == Fields(line)
        isFile == /\ r.MultiModal
                  /\ \E i \in DOMAIN extractFileNames(line) :
                        HasPrefix(extractFileNames(line)[i], args[1])
    IN IF ~isFile THEN Continue(Say(r, "Unknown command '%s'. Type /? for help"))
       ELSE Fall([r EXCEPT !.sb = @ \o line])

\* Mutant of Switch: the commands are looked for before the multi-line state.
SwitchCommandsFirst(r, line, pasting, out) ==
    IF HasPrefix(line, <<"/", "c", "l", "e", "a", "r">>) THEN CaseClear(r)
    ELSE IF HasPrefix(line, <<"/", "e", "x", "i", "t">>) \/ HasPrefix(line, <<"/", "b", "y", "e">>) THEN Return(r, "")
    ELSE IF r.multiline # "MultilineNone" THEN CaseMultiline(r, line)
    ELSE IF HasPrefix(line, TripleQuote) THEN CaseTripleQuote(r, line)
    ELSE Fall([r EXCEPT !.sb = @ \o line])

\* The switch on the line read (153-443).
Switch(r, line, pasting, out) ==
    IF r.multiline # "MultilineNone" THEN CaseMultiline(r, line)
    ELSE IF HasPrefix(line, TripleQuote) THEN CaseTripleQuote(r, line)
    ELSE IF pasting THEN Continue([r EXCEPT !.sb = @ \o line \o NewLine])
    ELSE IF HasPrefix(line, <<"/", "l", "i", "s", "t">>) THEN CaseList(r, out)
    ELSE IF HasPrefix(line, <<"/", "l", "o", "a", "d">>) THEN CaseLoad(r, line, out)
    ELSE IF HasPrefix(line, <<"/", "s", "a", "v", "e">>) THEN CaseSave(r, line, out)
    ELSE IF HasPrefix(line, <<"/", "c", "l", "e", "a", "r">>) THEN CaseClear(r)
    ELSE IF HasPrefix(line, <<"/", "s", "e", "t">>) THEN CaseSet(r, line, out)
    ELSE IF HasPrefix(line, <<"/", "s", "h", "o", "w">>) THEN CaseShow(r, line, out)
    ELSE IF HasPrefix(line, <<"/", "h", "e", "l", "p">>) \/ HasPrefix(line, <<"/", "?">>)
    THEN Fall(Say(r, "usage"))
    ELSE IF HasPrefix(line, <<"/", "e", "x", "i", "t">>) \/ HasPrefix(line, <<"/", "b", "y", "e">>) THEN Return(r, "")
    ELSE IF HasPrefix(line, <<"/">>) THEN CaseSlash(r, line)
    ELSE Fall([r EXCEPT !.sb = @ \o line])

\* Mutant of Send: chat is called without the buffer in the history.
SendWithoutUserMessage(r, out) ==
    IF Len(r.sb) > 0 /\ r.multiline = "MultilineNone"
    THEN [r EXCEPT !.pc = "chat"]
    ELSE r

\* The buffer becomes a user message and chat is called (445-460).
Send(r, out) ==
    IF Len(r.sb) > 0 /\ r.multiline = "MultilineNone"
    THEN IF r.MultiModal
         THEN LET d == extractFileData(r.sb, out) IN
              IF d.err # "" THEN Exited(r, d.err)
              ELSE [r EXCEPT
                      !.Messages = Append(@, [Role |-> "user", Content |-> d.msg,
                                              Images |-> d.images]),
                      !.pc = "chat"]
         ELSE [r EXCEPT !.Messages = Append(@, Message("user", r.sb)),
                        !.pc = "chat"]
    ELSE r

\* One line read by scanner.Readline and handled.
HandleLine(r, line, pasting, out) ==
    LET c == Switch([r EXCEPT !.event = "line", !.line = line,
                               !.pasting = pasting, !.printed = <<>>,
                               !.n = @ + 1, !.out = out],
                    line, pasting, out)
        end == IF c.go = "fall" THEN Send(c.r, out) ELSE c.r
    IN IF end.pc = "exited" THEN end ELSE [end EXCEPT !.out = ""]

\* The lines typed.
Lines ==
    { <<"h", "i">>,
      <<"\"", "\"", "\"", "h", "i">>,
      <<"y", "o", "\"", "\"", "\"">>,
      TripleQuote,
      <<"\"", "\"", "\"", "h", "i", "\"", "\"", "\"">>,
      <<"/", "c", "l", "e", "a", "r">>,
      <<"/", "b", "y", "e">>,
      <<"/", "f", "o", "o">>,
      <<"/", "h", "e", "l", "p">>,
      <<"/", "s", "e", "t", " ", "s", "y", "s", "t", "e", "m", " ", "S">>,
      <<"/", "s", "e", "t", " ", "s", "y", "s", "t", "e", "m", " ", "\"", "\"", "\"", "S">>,
      <<"/", "s", "e", "t", " ", "s", "y", "s", "t", "e", "m", " ", "\"", "\"", "\"">>,
      <<"/", "l", "o", "a", "d", " ", "m", "2">>,
      <<"/", "s", "e", "t", " ", "p", "a", "r", "a", "m", "e", "t", "e", "r", " ", "s", "e", "e", "d", " ", "1">>,
      <<"/", "i", ".", "p", "n", "g", " ", "h", "i">>,
      <<"/", "s", "e", "t", "/", "i", ".", "p", "n", "g", " ", "h", "i">>,
      <<"/", "s", "h", "o", "w", " ", "p", "a", "r", "a", "m", "e", "t", "e", "r", "s">> }

\* What chat returns as the message of the assistant.
Replies == {<<"o", "k">>}

\* The lines that arrive inside a bracketed paste (scanner.Pasting).
PastedLines == {<<"h", "i">>}

\* scanner.Readline returned a line (135, 153-458).
ReadLine ==
    /\ repl.pc = "read"
    /\ repl.n < MaxLines
    /\ \E line \in Lines, pasting \in BOOLEAN, out \in Outcomes :
          /\ pasting => line \in PastedLines
          /\ repl' = HandleLine(repl, line, pasting, out)
    /\ UNCHANGED NotRepl

\* scanner.Readline returned io.EOF (137-139) or another error (149-150).
ReadEnds ==
    /\ repl.pc = "read"
    /\ \E e \in {"", "readline"} :
          repl' = Exited([repl EXCEPT !.event = "eof", !.line = <<>>,
                                      !.pasting = FALSE, !.printed = <<>>,
                                      !.out = "fatal"], e)
    /\ UNCHANGED NotRepl

\* scanner.Readline returned readline.ErrInterrupt (140-148).
ReadInterrupt ==
    /\ repl.pc = "read"
    /\ repl.n < MaxLines
    /\ \E typed \in BOOLEAN :
          repl' = [repl EXCEPT
                     !.UseAlt = FALSE, !.sb = <<>>,
                     !.printed = IF typed THEN <<>>
                                 ELSE <<Said("Use Ctrl + d or /bye to exit.", {})>>,
                     !.event = "interrupt", !.pasting = FALSE, !.n = @ + 1]
    /\ UNCHANGED NotRepl

\* chat returned a message, or nothing (460-468).
ChatReturns ==
    /\ repl.pc = "chat"
    /\ \/ \E a \in Replies :
            repl' = [repl EXCEPT !.Messages = Append(@, Message("assistant", a)),
                                 !.sb = <<>>, !.pc = "read", !.event = "chat",
                                 !.printed = <<>>]
       \/ repl' = [repl EXCEPT !.sb = <<>>, !.pc = "read", !.event = "chat",
                                !.printed = <<>>]
    /\ UNCHANGED NotRepl

\* chat returned an error (461-463).
ChatFails ==
    /\ repl.pc = "chat"
    /\ \E out \in {"error", "fatal"} :
          repl' = Exited([repl EXCEPT !.event = "chat", !.printed = <<>>,
                                      !.out = out], "chat")
    /\ UNCHANGED NotRepl

NextRepl ==
    \/ ReadLine
    \/ ReadEnds
    \/ ReadInterrupt
    \/ ChatReturns
    \/ ChatFails

\* The session at the first Readline: a model, with or without image input,
\* no system message and no history.
InitRepl ==
    /\ \E mm \in BOOLEAN :
          repl = [NoSession EXCEPT !.pc = "read", !.Model = <<"m", "1">>,
                                   !.MultiModal = mm]
    /\ StoreIdle /\ TemplateIdle /\ TokenizerIdle /\ PruneIdle /\ DecoderIdle

SpecRepl == InitRepl /\ [][NextRepl]_vars

(***************************************************************************)
(*                       CLAIMS ON THE TOKENIZER                           *)
(***************************************************************************)
RoundTripCase == tk.pc = "decoded" /\ ~tk.addSpecial

\* Every character of the text, a space taken as the separator, is a token.
EveryCharIsToken ==
    \A i \in DOMAIN tk.s :
        \E t \in DOMAIN tk.vocab.values :
            tk.vocab.values[t] = <<IF tk.s[i] = " " THEN Sep ELSE tk.s[i]>>

\* C4 as stated: for every string s over printable ASCII and the separator,
\* Decode(Encode(s, false)) is s.
C4_RoundTrip == RoundTripCase => tk.decoded = tk.s

\* C4: Decode(Encode(s, false)) is s for every s that does not hold the
\* separator and whose characters are all tokens, under a pre-tokenizer
\* expression whose matches cover the text.
C4_RoundTripWithoutSep ==
    (/\ RoundTripCase
     /\ Sep \notin Range(tk.s)
     /\ EveryCharIsToken
     /\ tk.pre \in {PreAny, PreRuns}) => tk.decoded = tk.s

C4_Witness ==
    /\ RoundTripCase
    /\ tk.vocab = VocabPlain
    /\ tk.s = <<"a", " ", "b">>
    /\ tk.ids = <<0, 3, 1>>
    /\ tk.decoded = tk.s

\* Encode has returned; tk.body holds the ids before the bookends.
Encoded == tk.pc \in {"encoded", "decoded"}

\* C12 as stated: for every text, with addSpecial and AddBOS the returned
\* ids begin with BOS, with addSpecial and AddEOS they end with EOS, and
\* without addSpecial nothing is added.
C12_Bookends ==
    Encoded =>
        /\ tk.addSpecial /\ tk.vocab.AddBOS =>
                Len(tk.ids) > 0 /\ tk.ids[1] = tk.vocab.BOS
        /\ tk.addSpecial /\ tk.vocab.AddEOS =>
                Len(tk.ids) > 0 /\ tk.ids[Len(tk.ids)] = tk.vocab.EOS
        /\ ~tk.addSpecial => tk.ids = tk.body

\* How many ids the bookends add to a non-empty encoding.
Added ==
    (IF tk.vocab.AddBOS THEN 1 ELSE 0) + (IF tk.vocab.AddEOS THEN 1 ELSE 0)

\* C12: when the text encodes to at least one id, with addSpecial and AddBOS
\* the returned ids begin with BOS and with addSpecial and AddEOS they end
\* with EOS, around the encoding itself; when the encoding is empty, or
\* without addSpecial, nothing is added.
C12_BookendsWhenNonEmpty ==
    Encoded =>
        /\ tk.addSpecial /\ tk.body # <<>> =>
                /\ Len(tk.ids) = Len(tk.body) + Added
                /\ tk.vocab.AddBOS => tk.ids[1] = tk.vocab.BOS
                /\ tk.vocab.AddEOS => tk.ids[Len(tk.ids)] = tk.vocab.EOS
                /\ LET k == IF tk.vocab.AddBOS THEN 1 ELSE 0
                   IN SubSeq(tk.ids, k + 1, k + Len(tk.body)) = tk.body
        /\ ~tk.addSpecial \/ tk.body = <<>> => tk.ids = tk.body

C12_Witness ==
    /\ tk.pc = "encoded"
    /\ tk.addSpecial
    /\ tk.vocab = VocabChat
    /\ tk.s = <<"a", "b">>
    /\ tk.body = <<5>>
    /\ tk.ids = <<0, 5, 1>>

RECURSIVE Ascending(_)
\* The members of a set of indices, lowest first.
Ascending(S) ==
    IF S = {} THEN <<>>
    ELSE LET m == CHOOSE x \in S : \A y \in S : x <= y
         IN <<m>> \o Ascending(S \ {m})

\* The ids of the tokens whose value is str: one id, or none.
IdsOf(str) ==
    {t - 1 : t \in {u \in DOMAIN tk.vocab.values : tk.vocab.values[u] = str}}

\* The next split with its spaces replaced by the separator.
NextPiece ==
    LET v == Head(tk.todo).value
    IN [i \in DOMAIN v |-> IF v[i] = " " THEN Sep ELSE v[i]]

\* The ids of the merge nodes that still hold runes and are tokens, in
\* index order.
SurvivorIds ==
    LET live == Ascending({r \in DOMAIN tk.merges :
                    tk.merges[r].runes # <<>> /\ IdsOf(tk.merges[r].runes) # {}})
    IN [k \in DOMAIN live |->
            CHOOSE id \in IdsOf(tk.merges[live[k]].runes) : TRUE]

\* What a step of Encode does with a split: a split that is a token adds
\* exactly its id; any other split adds, once its merge loop has ended, the
\* ids of the surviving merge nodes from left to right.
PieceStep ==
    /\ (tk.pc = "fragments" /\ tk.todo # <<>> /\ Head(tk.todo).kind = "split"
            /\ tk' # tk) =>
          IF IdsOf(NextPiece) # {}
          THEN /\ \E id \in IdsOf(NextPiece) : tk'.ids = Append(tk.ids, id)
               /\ tk'.pc = "fragments"
          ELSE tk'.pc = "merging" /\ tk'.ids = tk.ids
    /\ (tk.pc = "merging" /\ tk'.pc = "merging") => tk'.ids = tk.ids
    /\ (tk.pc = "merging" /\ tk'.pc = "fragments") =>
          tk'.ids = tk.ids \o SurvivorIds

\* The tokenizer holds the vocabulary {a:0, b:1, ab:2, U+2581:3} and Encode
\* has returned without bookends.
PlainEncoded == Encoded /\ tk.vocab = VocabPlain /\ ~tk.addSpecial

C14_ConstructorSucceeds == tk.pc # "panicked"

(***************************************************************************)
(*                     CLAIMS ON THE TEMPLATE ENGINE                       *)
(***************************************************************************)
\* The direct children of a parse node.
Children(n) ==
    CASE n.type = "list" -> Range(n.nodes)
      [] n.type = "action" -> {n.pipe}
      [] n.type \in BranchKinds ->
            {n.pipe, n.list} \cup (IF n.elseList # Nil THEN {n.elseList} ELSE {})
      [] n.type = "pipe" -> Range(n.cmds)
      [] n.type = "command" -> Range(n.args)
      [] OTHER -> {}

RECURSIVE SubNodes(_)
\* Every node of the tree under n, n included.
SubNodes(n) == {n} \cup UNION {SubNodes(c) : c \in Children(n)}

\* The lowercased identifiers referenced anywhere in a template.
ReferencedLower(tree) ==
    {ToLower(id) : id \in UNION {Range(n.ident) :
        n \in {m \in SubNodes(tree) : m.type \in {"field", "variable"}}}}

UsesNeither(tree) == ReferencedLower(tree) \cap {"messages", "response"} = {}

RECURSIVE IncSeq(_)
\* The members of a set of integers in increasing order.
IncSeq(S) ==
    IF S = {} THEN <<>>
    ELSE LET m == CHOOSE x \in S : \A y \in S : x <= y
         IN <<m>> \o IncSeq(S \ {m})

\* The contents of the system messages, in order, joined by "\n\n".
JoinedSystem(msgs) ==
    LET idx == IncSeq({i \in DOMAIN msgs : msgs[i].role = "system"})
    IN Join([k \in DOMAIN idx |-> msgs[idx[k]].content], NL2)

\* One message per maximal run of consecutive same-role messages: the run's
\* role, and the run's contents joined by "\n\n".
MergedRuns(msgs) ==
    LET starts == IncSeq({i \in DOMAIN msgs :
                            i = 1 \/ msgs[i].role # msgs[i - 1].role})
        last(k) == IF k < Len(starts) THEN starts[k + 1] - 1 ELSE Len(msgs)
    IN [k \in DOMAIN starts |->
          Msg(msgs[starts[k]].role,
              Join([j \in 1..(last(k) - starts[k] + 1) |->
                      msgs[starts[k] + j - 1].content], NL2))]

EndsWith(s, suffix) ==
    /\ Len(s) >= Len(suffix)
    /\ SubSeq(s, Len(s) - Len(suffix) + 1, Len(s)) = suffix

Executed == tpc = "executed"

\* The data of the last template execution of the call.
LastRender == tres.renders[Len(tres.renders)]

\* A template with neither messages nor response was rendered, without
\* error, and its last execution had prompt "hi" and response "yo".
ImplicitResponseCase ==
    /\ Executed
    /\ UsesNeither(tsrc)
    /\ tres.mode = "legacy"
    /\ tres.err = ""
    /\ LastRender["Prompt"] = StrVal(<<"h", "i">>)
    /\ LastRender["Response"] = StrVal(<<"y", "o">>)

C6_HelloWorld ==
    (/\ Executed
     /\ tsrc = HelloTemplate
     /\ tv.Prompt = <<"w", "o", "r", "l", "d">>
     /\ tv.Suffix = <<>>
     /\ tv.Messages = <<>>) => tres.out = <<"H", "e", "l", "l", "o", " ", "w", "o", "r", "l", "d", "!">>

\* CheckCapabilities has returned.
Checked == tpc = "checked"

\* The requested capabilities the model lacks: tools when the template
\* variables lack tools, insert when they lack suffix, completion when the
\* model file has the pooling_type key.
Lacking ==
    {c \in Range(cc.caps) :
        \/ c = "tools" /\ "tools" \notin ReferencedLower(tmpl)
        \/ c = "insert" /\ "suffix" \notin ReferencedLower(tmpl)
        \/ c = "completion" /\ cc.file = "pooling"}

\* The error is one whose message begins with "does not support" and names
\* every lacking capability.
NamesLacking ==
    /\ cc.err.kind = "error"
    /\ Head(cc.err.msg) = "does not support"
    /\ Lacking \subseteq Range(Tail(cc.err.msg))

\* C15 as stated: CheckCapabilities returns nil when every requested
\* capability is supported, and otherwise one error that begins with "does
\* not support" and names every requested capability that is unsupported.
C15_CapabilityError ==
    Checked => IF Lacking = {} THEN cc.err = NilError ELSE NamesLacking

\* C15: when every requested capability is one of completion, tools and
\* insert, CheckCapabilities returns nil if none is lacking and otherwise one
\* error that begins with "does not support" and names every lacking one;
\* when a requested capability is none of the three, it returns an error
\* "unknown capability: <cap>" for the first such, which names no other.
C15_KnownCapabilityError ==
    Checked =>
        IF Range(cc.caps) \subseteq KnownCapabilities
        THEN IF Lacking = {} THEN cc.err = NilError ELSE NamesLacking
        ELSE /\ cc.err.kind = "error"
             /\ Head(cc.err.msg) = "unknown capability:"
             /\ \E i \in DOMAIN cc.caps :
                    /\ cc.caps[i] \notin KnownCapabilities
                    /\ \A j \in 1..(i - 1) : cc.caps[j] \in KnownCapabilities
                    /\ cc.err.msg = <<"unknown capability:", " ", cc.caps[i]>>

C15_Witness ==
    /\ Checked
    /\ tsrc = HelloTemplate
    /\ cc.caps = <<"tools", "insert">>
    /\ cc.err = Error(<<"does not support", " ", "tools", "\n", "insert">>)

\* Prompt and Suffix are both non-empty.
FimCase == Executed /\ tv.Prompt # <<>> /\ tv.Suffix # <<>>

\* C11: whenever Prompt and Suffix are both non-empty the template is
\* executed exactly once, with Prompt, Suffix and an empty Response and
\* nothing else, whatever the messages, the tools and the template are.
C11_FimFirst ==
    FimCase =>
        /\ tres.mode = "fim"
        /\ Len(tres.renders) = 1
        /\ DOMAIN tres.renders[1] = {"Prompt", "Suffix", "Response"}
        /\ tres.renders[1]["Prompt"] = StrVal(tv.Prompt)
        /\ tres.renders[1]["Suffix"] = StrVal(tv.Suffix)
        /\ tres.renders[1]["Response"] = StrVal(<<>>)
        /\ tres.out = ExecTree(tmpl, tres.renders[1]).out

C11_Witness ==
    /\ FimCase
    /\ tsrc = RangeTemplate
    /\ ~tv.forceLegacy
    /\ tv.Tools # <<>>
    /\ \E i \in DOMAIN tv.Messages : tv.Messages[i].role = "system"
    /\ tres.mode = "fim"
    /\ tres.out = <<>>

\* The template uses messages, legacy mode is not forced and the
\* fill-in-the-middle shortcut does not apply.
StructuredCase ==
    /\ Executed
    /\ "messages" \in ReferencedLower(tsrc)
    /\ ~tv.forceLegacy
    /\ ~(tv.Prompt # <<>> /\ tv.Suffix # <<>>)

SystemUserUser == <<Msg("system", <<"S">>), Msg("user", <<"u">>), Msg("user", <<"v">>)>>

\* C7: in structured mode Execute renders the template once, with System the
\* joined system contents and Messages the collated list, system turns kept
\* in place and consecutive same-role messages merged; [system S, user u,
\* user v] renders as "system: S\nuser: u\n\nv\n".
C7_StructuredRendersOnce ==
    StructuredCase =>
        /\ tres.mode = "structured"
        /\ Len(tres.renders) = 1
        /\ tres.renders[1]["System"] = StrVal(JoinedSystem(tv.Messages))
        /\ tres.renders[1]["Messages"] = ListVal(MergedRuns(tv.Messages))
        /\ tres.renders[1]["Response"] = StrVal(<<>>)
        /\ tres.out = ExecTree(tmpl, tres.renders[1]).out
        /\ (tsrc = RangeTemplate /\ tv.Messages = SystemUserUser
                => tres.out = <<"s", "y", "s", "t", "e", "m", ":", " ", "S", "\n", "u", "s", "e", "r", ":", " ", "u", "\n", "\n", "v", "\n">>)

C7_Witness ==
    /\ StructuredCase
    /\ tsrc = RangeTemplate
    /\ tv.Messages = SystemUserUser
    /\ tres.renders[1]["Messages"].v =
            <<Msg("system", <<"S">>), Msg("user", <<"u", "\n", "\n", "v">>)>>
    /\ tres.out = <<"s", "y", "s", "t", "e", "m", ":", " ", "S", "\n", "u", "s", "e", "r", ":", " ", "u", "\n", "\n", "v", "\n">>

\* C8: collating the collated list again returns the same collated list and
\* the same System string.
C8_CollateIdempotent ==
    recollated # Nil =>
        /\ recollated.collated = tres.collated
        /\ recollated.system = tres.system

C8_Witness ==
    /\ recollated # Nil
    /\ Len(tres.collated) < Len(tv.Messages)
    /\ Len(tres.collated) > 1
    /\ tres.system # <<>>
    /\ recollated.collated = tres.collated

\* C9: collate returns the system contents in order joined by "\n\n", and a
\* list with one message per maximal run of consecutive same-role messages,
\* its content the run's contents joined by "\n\n"; no two adjacent results
\* share a role.
C9_CollateMergesRuns ==
    Executed =>
        /\ tres.system = JoinedSystem(tv.Messages)
        /\ tres.collated = MergedRuns(tv.Messages)
        /\ \A i \in 2..Len(tres.collated) :
                tres.collated[i].role # tres.collated[i - 1].role

C9_Witness ==
    /\ Executed
    /\ Cardinality({i \in DOMAIN tv.Messages : tv.Messages[i].role = "system"}) = 2
    /\ Len(tres.collated) = 2
    /\ Len(tv.Messages) = 3
    /\ tres.system = <<"S", "\n", "\n", "S">>

InstalledRefs ==
    {d \in Digests : \E n \in QualifiedNames :
        /\ manifests[n].kind = "manifest"
        /\ \/ \E i \in DOMAIN manifests[n].layers : manifests[n].layers[i] = d
           \/ manifests[n].config = d}

\* C1: manifest closure. In every reachable state of the store, under any
\* interleaving of PullModel, CopyModel, deleteUnusedLayers and PruneLayers,
\* the blob of every layer digest and of the config digest of every
\* installed manifest exists.
C1_ManifestClosure ==
    \A d \in InstalledRefs : BlobFile(d) \in blobs

\* The partial files of downloads in flight (the writer's lock on the blob).
LockedFiles ==
    IF pull.pc = "downloading"
    THEN {PartialFile(LayersOf(pull.m)[pull.i])} ELSE {}

\* PruneLayers has returned and no other operation changed the store
\* since it began.
PruneReturned == gc.pc = "done" /\ gc.caller = "prune" /\ ~gc.interfered

DeleteUnusedReturned == gc.pc = "done" /\ gc.caller = "du" /\ ~gc.interfered

CopyReturned == copy.pc = "done" /\ ~copy.interfered

BothQualified == copy.src \in QualifiedNames /\ copy.dst \in QualifiedNames

\* C16: CopyModel returns the unqualified-name error and changes no manifest
\* when src or dst is not fully qualified; returns nil and changes nothing
\* when src and dst are the same path; otherwise, when it succeeds, dst holds
\* the bytes of src and every other manifest, src included, is unchanged.
C16_CopyModelContract ==
    CopyReturned =>
        /\ ~BothQualified => copy.err = "unqualified" /\ manifests = copy.before
        /\ BothQualified /\ copy.src = copy.dst =>
                copy.err = "" /\ manifests = copy.before
        /\ BothQualified /\ copy.src # copy.dst /\ copy.err = "" =>
                /\ manifests[copy.dst] = copy.before[copy.src]
                /\ \A n \in QualifiedNames \ {copy.dst} :
                        manifests[n] = copy.before[n]

C16_Witness ==
    /\ CopyReturned
    /\ BothQualified
    /\ copy.src # copy.dst
    /\ copy.err = ""
    /\ copy.before[copy.src].kind = "manifest"
    /\ copy.before[copy.dst] # copy.before[copy.src]
    /\ manifests[copy.dst] = manifests[copy.src]



\* The requests of the push so far, and the digests of the blobs among them.
PutAt(k) == push.sent[k].kind = "manifest"

BlobsSent == [k \in 1..Len(push.sent) |-> push.sent[k].digest]

\* C17: in PushModel the manifest PUT is sent only after uploadBlob has
\* returned nil for every layer and for the config, in the order of the
\* manifest; when an upload fails no manifest PUT is sent, that error is
\* returned and "success" is never emitted; and "success", once emitted, is
\* the last progress event and comes with a nil return.
C17_ManifestPutLast ==
    /\ \A k \in 1..Len(push.sent) :
          PutAt(k) =>
            /\ k = Len(push.sent)
            /\ SubSeq(BlobsSent, 1, k - 1) = push.layers
    /\ push.err = "upload" =>
          /\ push.pc = "done"
          /\ \A k \in 1..Len(push.sent) : ~PutAt(k)
          /\ \A k \in 1..Len(push.events) : push.events[k] # "success"
    /\ \A k \in 1..Len(push.events) :
          push.events[k] = "success" =>
            /\ k = Len(push.events)
            /\ push.pc = "done"
            /\ push.err = ""
            /\ Len(push.sent) > 0 /\ PutAt(Len(push.sent))

\* A push of a manifest with a layer and a config has ended with "success";
\* another one has ended on the failed upload of its second blob.
C17_Witness ==
    /\ push.pc = "done"
    /\ push.err = ""
    /\ push.layers = <<"sha256:a", "sha256:c">>
    /\ push.events[Len(push.events)] = "success"

C17_WitnessFailure ==
    /\ push.pc = "done"
    /\ push.err = "upload"
    /\ Len(push.sent) = 1

(***************************************************************************)
(*                        CLAIMS ON PruneDirectory                         *)
(***************************************************************************)

RECURSIVE IsUnder(_, _, _)

\* Node n lies somewhere below node a.
IsUnder(fs, n, a) ==
    /\ n # 0
    /\ fs.kind[n] # "none"
    /\ \/ fs.parent[n] = a
       \/ IsUnder(fs, fs.parent[n], a)

Sub(fs, a) == {a} \cup {n \in Nodes : IsUnder(fs, n, a)}

Removed(n) == pd.fs.kind[n] # "none" /\ pd.after.kind[n] = "none"

\* C18: PruneDirectory(path) removes only directories of the tree below path
\* that are not symbolic links and that have no entry left, changes nothing
\* else, and, when it returns nil, has removed every directory below path
\* that has no entry left after its children were pruned; a path that is a
\* symbolic link or a regular file is left as it is.
C18_PruneDirectoryContract ==
    pd.pc = "returned" =>
        /\ pd.after.parent = pd.fs.parent
        /\ \A n \in Nodes :
              /\ pd.after.kind[n] \in {pd.fs.kind[n], "none"}
              /\ Removed(n) =>
                    /\ pd.fs.kind[n] = "dir"
                    /\ n \in Sub(pd.fs, pd.path)
                    /\ ~HasEntries(pd.after, n)
        /\ pd.err = "" =>
              \A n \in Sub(pd.fs, pd.path) :
                  pd.fs.kind[n] \in DirKinds =>
                      (Removed(n) <=> ~HasEntries(pd.after, n))

\* A call on a directory that holds nothing but a symbolic link returned
\* nil: the link, the directory that holds it and the directory the link
\* points at, an empty one outside the pruned tree, are still there.
C18_Witness ==
    /\ pd.pc = "returned"
    /\ pd.err = ""
    /\ pd.fs.kind[pd.fs.to] = "dir"
    /\ ~HasEntries(pd.fs, pd.fs.to)
    /\ pd.fs.to \notin Sub(pd.fs, pd.path)
    /\ pd.after.kind[pd.fs.to] = "dir"
    /\ pd.after.kind[pd.path] = "dir"
    /\ \E l \in Sub(pd.fs, pd.path) \ {pd.path} :
          /\ pd.fs.kind[l] = "link"
          /\ pd.after.kind[l] = "link"

\* A call on a directory of nested empty directories removed them all, and a
\* call on a directory with a file in it removed nothing but its empty
\* subdirectories.
C18_WitnessNested ==
    /\ pd.pc = "returned"
    /\ pd.err = ""
    /\ Removed(pd.path)
    /\ \E d \in Nodes \ {pd.path} : pd.fs.parent[d] # pd.path /\ Removed(d)

(***************************************************************************)
(*                   CLAIMS ON THE INTERACTIVE SESSION                     *)
(***************************************************************************)

UserMessages(msgs) == {i \in DOMAIN msgs : msgs[i].Role = "user"}

\* What the buffer may read as once it is a user message: itself, or in a
\* session with image input what extractFileData made of it.
UserText(r) ==
    IF r.MultiModal
    THEN {extractFileData(r.sb, o).msg : o \in {"ok", "soft"}}
    ELSE {r.sb}

\* chat has been called and has not returned.
ChatIssued ==
    /\ repl.multiline = "MultilineNone"
    /\ Len(repl.sb) > 0
    /\ Len(repl.Messages) > 0
    /\ repl.Messages[Len(repl.Messages)].Role = "user"
    /\ repl.Messages[Len(repl.Messages)].Content \in UserText(repl)

\* The step that calls chat adds one user message, as the last message.
ChatCall ==
    (repl.pc = "read" /\ repl'.pc = "chat") =>
        /\ Cardinality(UserMessages(repl'.Messages))
              = Cardinality(UserMessages(repl.Messages)) + 1
        /\ Len(repl'.Messages) > Len(repl.Messages)
        /\ \A i \in 1..Len(repl.Messages) :
              repl.Messages[i].Role = "user" => repl'.Messages[i] = repl.Messages[i]

\* The step in which chat returns without an error appends the message of
\* the assistant, if there is one, and empties the buffer.
ChatReturn ==
    (repl.pc = "chat" /\ repl'.pc = "read") =>
        /\ repl'.sb = <<>>
        /\ \/ repl'.Messages = repl.Messages
           \/ /\ Len(repl'.Messages) = Len(repl.Messages) + 1
              /\ SubSeq(repl'.Messages, 1, Len(repl.Messages)) = repl.Messages
              /\ repl'.Messages[Len(repl'.Messages)].Role = "assistant"

\* C19: chat is called only in the Normal state with a non-empty buffer and
\* with the buffer as the last message of the history, a user message, the
\* only user message the step added; when chat returns a message it is
\* appended right after that user message, and the buffer is emptied.
C19_ChatTurn ==
    /\ [](repl.pc = "chat" => ChatIssued)
    /\ [][ChatCall /\ ChatReturn]_vars

\* A turn has been completed: the history ends with the line typed, as a
\* user message, and the reply, and the buffer is empty.
C19_Witness ==
    /\ repl.pc = "read"
    /\ repl.event = "chat"
    /\ repl.sb = <<>>
    /\ Len(repl.Messages) >= 2
    /\ repl.Messages[Len(repl.Messages)].Role = "assistant"
    /\ repl.Messages[Len(repl.Messages) - 1].Role = "user"
    /\ repl.Messages[Len(repl.Messages) - 1].Content = <<"h", "i">>

InBlock ==
    repl.pc = "read" /\ repl.multiline \in {"MultilinePrompt", "MultilineSystem"}

\* A line was read in this step.
LineRead == repl'.event = "line" /\ repl'.n = repl.n + 1

\* Inside a block a line that does not end in """ goes to the buffer with a
\* line feed and does nothing else; a line that ends in """ ends the block.
BlockLine ==
    (InBlock /\ LineRead) =>
        IF HasSuffix(repl'.line, TripleQuote)
        THEN repl'.multiline = "MultilineNone"
        ELSE repl' = [repl EXCEPT !.sb = @ \o repl'.line \o NewLine,
                                  !.event = "line",
                                  !.line = repl'.line,
                                  !.pasting = repl'.pasting,
                                  !.printed = <<>>,
                                  !.n = @ + 1]

\* Inside a block a step that reads no line (an interrupt) leaves the state
\* of the block and the history as they are and does not call chat.
BlockOther ==
    (InBlock /\ ~LineRead /\ repl'.pc # "exited") =>
        /\ repl'.pc = "read"
        /\ repl'.multiline = repl.multiline
        /\ repl'.Messages = repl.Messages

\* C20: in MultilinePrompt and MultilineSystem no line is taken as a command
\* (a line that starts with / goes to the buffer), the history does not
\* change and chat is not called, until a line that ends in """ closes the
\* block and the state is Normal again.
C20_BlockCapturesLines == [][BlockLine /\ BlockOther]_vars

\* /clear was typed inside a multi-line message with a history that it would
\* have cleared: it is in the buffer and the history is as it was.
C20_Witness ==
    /\ repl.pc = "read"
    /\ repl.multiline = "MultilinePrompt"
    /\ repl.event = "line"
    /\ repl.line = <<"/", "c", "l", "e", "a", "r">>
    /\ HasSuffix(repl.sb, <<"/", "c", "l", "e", "a", "r">> \o NewLine)
    /\ Len(repl.Messages) > 0

\* /bye was typed inside a multi-line system message: the session goes on.
C20_WitnessSystem ==
    /\ repl.pc = "read"
    /\ repl.multiline = "MultilineSystem"
    /\ repl.event = "line"
    /\ repl.line = <<"/", "b", "y", "e">>
    /\ HasSuffix(repl.sb, <<"/", "b", "y", "e">> \o NewLine)

\* The line read in this step is taken as a command: the session is in the
\* Normal state, the line does not open a block and is not part of a paste.
CommandRead ==
    /\ repl.pc = "read"
    /\ repl.multiline = "MultilineNone"
    /\ LineRead
    /\ ~HasPrefix(repl'.line, TripleQuote)
    /\ ~repl'.pasting

\* C21: after /clear the history is the system message of the session alone
\* when there is one and is empty otherwise; model name, system message,
\* options and format are as before and chat is not called.
C21_ClearKeepsSystem ==
    [][(CommandRead /\ HasPrefix(repl'.line, <<"/", "c", "l", "e", "a", "r">>)) =>
          /\ repl'.pc = "read"
          /\ repl'.Messages = IF repl.System # <<>>
                              THEN <<Message("system", repl.System)>>
                              ELSE <<>>
          /\ repl'.Model = repl.Model
          /\ repl'.System = repl.System
          /\ repl'.Options = repl.Options
          /\ repl'.Format = repl.Format]_vars

\* /clear was the third line of a session that has a system message: the
\* history is that system message and nothing else.
C21_Witness ==
    /\ repl.pc = "read"
    /\ repl.event = "line"
    /\ repl.line = <<"/", "c", "l", "e", "a", "r">>
    /\ ~repl.pasting
    /\ repl.n = 3
    /\ repl.System = <<"S">>
    /\ repl.Messages = <<Message("system", <<"S">>)>>

\* /clear in a session without a system message and with a turn behind it.
C21_WitnessEmpty ==
    /\ repl.pc = "read"
    /\ repl.event = "line"
    /\ repl.line = <<"/", "c", "l", "e", "a", "r">>
    /\ repl.n = 2
    /\ repl.System = <<>>
    /\ repl.Messages = <<>>

\* The last step read /set parameter with a name and a value as a command.
SetParameterRead ==
    /\ CommandRead
    /\ HasPrefix(repl'.line, <<"/", "s", "e", "t", " ", "p", "a", "r", "a", "m", "e", "t", "e", "r", " ">>)
    /\ Len(Fields(repl'.line)) >= 4

\* The parameter formatter took the value.
Accepted ==
    \E i \in DOMAIN repl'.printed :
        repl'.printed[i].text = "Set parameter '%s' to '%s'"

\* /set parameter K V: when accepted, the options hold K with the formatted
\* value and are otherwise as before; when rejected, the options are as before.
SetParameterStep ==
    SetParameterRead =>
        LET args == Fields(repl'.line)
            K == args[3]
            V == FormatParams(SubSeq(args, 4, Len(args)))
        IN IF Accepted
           THEN /\ <<K, V>> \in repl'.Options
                /\ \A o \in repl'.Options : o[1] = K => o[2] = V
                /\ {o \in repl'.Options : o[1] # K} = {o \in repl.Options : o[1] # K}
           ELSE repl'.pc # "exited" => repl'.Options = repl.Options

\* /show parameters was the last command and the session has options.
ShownParameters ==
    /\ repl.pc # "exited"
    /\ repl.event = "line"
    /\ repl.line = <<"/", "s", "h", "o", "w", " ", "p", "a", "r", "a", "m", "e", "t", "e", "r", "s">>
    /\ repl.printed # <<>>
    /\ repl.Options # {}

\* C22: an accepted /set parameter K V puts K with the formatted value into
\* the options, a rejected one leaves the options alone, and /show parameters
\* prints the options under "User defined parameters" for any model.
C22_UserParametersShown ==
    /\ [][SetParameterStep]_vars
    /\ [](ShownParameters =>
            \E i \in DOMAIN repl.printed :
                repl.printed[i] = Said("User defined parameters:", repl.Options))

\* What holds of /show parameters: the options are printed when the model
\* has parameters of its own.
C22_ShownWithModelParameters ==
    /\ [][SetParameterStep]_vars
    /\ [](ShownParameters =>
            \/ repl.printed = <<Said("No parameters were specified for this model.", {})>>
            \/ repl.printed = <<Said("User defined parameters:", repl.Options),
                                Said("Model defined parameters:", {})>>)

\* The first word of the line is a path to an image file.
LeadsWithImage(line) ==
    /\ HasPrefix(line, <<"/">>)
    /\ Fields(line) # <<>>
    /\ \/ HasSuffix(Fields(line)[1], <<".", "p", "n", "g">>)
       \/ HasSuffix(Fields(line)[1], <<".", "j", "p", "g">>)

\* In a session with image input a line that leads with an image path is
\* read where commands are read.
ImageLineRead ==
    /\ CommandRead
    /\ repl.MultiModal
    /\ LeadsWithImage(repl'.line)

\* The line went to the buffer and the buffer to the model, as one user
\* message; or its image could not be read and the session ended on that.
SentAsInput ==
    \/ /\ repl'.pc = "chat"
       /\ \E o \in {"ok", "soft"} :
             LET d == extractFileData(repl.sb \o repl'.line, o) IN
             repl'.Messages = Append(repl.Messages,
                                     [Role |-> "user", Content |-> d.msg,
                                      Images |-> d.images])
    \/ repl'.pc = "exited" /\ repl'.err = "image"

\* C23: in a session with image input every line that begins with / and
\* whose first word is a path to a .jpg or .png file goes to the buffer and
\* to the model and is not taken as a command, whatever the path begins with.
C23_ImagePathIsInput == [][ImageLineRead => SentAsInput]_vars

\* The session ended on /bye or /exit.
Left ==
    /\ repl.event = "line"
    /\ repl.err = ""
    /\ HasPrefix(repl.line, <<"/", "b", "y", "e">>) \/ HasPrefix(repl.line, <<"/", "e", "x", "i", "t">>)

\* C24: the read loop ends only on /bye, /exit, the end of the input or a
\* fatal error; after an error that is not fatal the session reads on.
C24_EndsOnlyOnFatal ==
    repl.pc = "exited" =>
        \/ Left
        \/ repl.event = "eof"
        \/ repl.out = "fatal"

\* What holds: of the errors that are not fatal the session survives those
\* its handlers look for, "not found" of /load and the invalid name of /save.
C24_EndsOnAnyOtherError ==
    /\ repl.pc = "exited" => (Left \/ repl.event = "eof" \/ repl.err # "")
    /\ (repl.pc = "read" /\ repl.event = "line"
          /\ \E i \in DOMAIN repl.printed : repl.printed[i].text = "error: %v")
       => HasPrefix(repl.line, <<"/", "l", "o", "a", "d">>)

(***************************************************************************)
(* The text decoder of mllama (model/models/mllama/model_text.go).         *)
(*                                                                         *)
(* A hidden state is the list of the positions its rows stand for and the  *)
(* list of the layers that were applied to it, each with the cache layer   *)
(* and layer type it attended through.  The numbers in the tensors play no *)
(* part in which layers run and which rows are kept.                       *)
(***************************************************************************)

\* Bound: blocks of the decoder (block_count).
MaxLayers == 3

\* Bound: positions of the batch given to Forward.
MaxBatch == 2

selfAttentionLayer == "self"

crossAttentionLayer == "cross"

\* newTextModel: block i is a cross-attention layer iff i is in
\* attention.cross_attention_layers, which is also opts.crossAttentionLayers.
newTextModel(block_count, cross_attention_layers) ==
    [Layers |-> [k \in 1..block_count |->
                    IF (k - 1) \in cross_attention_layers
                      THEN crossAttentionLayer ELSE selfAttentionLayer],
     crossAttentionLayers |-> cross_attention_layers]

\* The outputs tensors over a batch of n positions: rows in ascending order.
OutputTensors(n) ==
    {NoTensor} \cup {[given |-> TRUE, rows |-> Ascending(S)] : S \in (SUBSET (1..n)) \ {{}}}

\* Tensor.Rows: the rows of hidden at the indexes held by outputs.
Rows(hidden, outputs) ==
    [hidden EXCEPT !.rows = [k \in 1..Len(outputs.rows) |-> hidden.rows[outputs.rows[k]]]]

\* What a layer leaves in the hidden state: itself and the cache it used.
Applied(hidden, kind, cache) ==
    [hidden EXCEPT !.by = Append(@, [kind |-> kind, layer |-> cache.layer,
                                     layerType |-> cache.layerType])]

\* TextSelfAttentionDecoderLayer.Forward: the rows of outputs are gathered
\* from the attention output and from the residual when outputs is given.
SelfAttentionForward(hidden, outputs, enc, cache) ==
    [hidden |-> IF outputs.given
                  THEN Rows(Applied(hidden, selfAttentionLayer, cache), outputs)
                  ELSE Applied(hidden, selfAttentionLayer, cache),
     cache  |-> cache]

\* A call of the cache as the pass records it: the operation, the layer the
\* cache was set to, what EncoderCached reported and whether the layer held
\* encoder keys and values when the call was made.
Call(op, cache) ==
    [op |-> op, layer |-> cache.layer, encoderCached |-> cache.encoderCached,
     held |-> cache.layer \in cache.keys]

\* cache.Put on the encoder cache: the keys and values are stored for the
\* current layer and the cache reports EncoderCached from then on.
Put(cache) ==
    [cache EXCEPT !.encoderCached = TRUE, !.keys = @ \cup {cache.layer},
                  !.calls = Append(@, Call("Put", cache))]

\* cache.Get: the keys and values of the current layer are read.
Get(cache) == [cache EXCEPT !.calls = Append(@, Call("Get", cache))]

\* Mutant of CrossAttentionForward: the keys and values are put in the
\* cache whether or not there is encoder output.
CrossAttentionForwardAlwaysPuts(hidden, outputs, enc, cache) ==
    [hidden |-> Applied(hidden, crossAttentionLayer, cache),
     cache  |-> Get(Put(cache))]

\* TextCrossAttentionDecoderLayer.Forward: its outputs parameter is unnamed
\* and unused; TextCrossAttention.Forward puts the keys and values of the
\* encoder output in the cache when there is one, and then gets the keys
\* and values it attends to from the cache.
CrossAttentionForward(hidden, outputs, enc, cache) ==
    [hidden |-> Applied(hidden, crossAttentionLayer, cache),
     cache  |-> Get(IF enc THEN Put(cache) ELSE cache)]

LayerForward(kind, hidden, outputs, enc, cache) ==
    IF kind = crossAttentionLayer
      THEN CrossAttentionForward(hidden, outputs, enc, cache)
      ELSE SelfAttentionForward(hidden, outputs, enc, cache)

\* Forward, lines 181-184: the type of layer i.
LayerType(d, i) ==
    IF i \in d.crossAttentionLayers THEN crossAttentionLayer ELSE selfAttentionLayer

SetLayer(cache, i) == [cache EXCEPT !.layer = i]

SetLayerType(cache, lt) == [cache EXCEPT !.layerType = lt]

\* Forward, line 188, with every layer run whatever the cache holds.
RunsLayerAlways(lt, enc, cache) == TRUE

\* Forward, line 188: whether the layer is run.
RunsLayer(lt, enc, cache) ==
    lt = selfAttentionLayer \/ enc \/ cache.encoderCached

\* Forward, lines 189-192: outputs goes to the last layer only.
Out(d, i) == IF i = Len(d.Layers) - 1 THEN d.outputs ELSE NoTensor

\* One iteration of the loop of TextDecoder.Forward.
DecoderLayer ==
    /\ dec.pc = "loop"
    /\ dec.i < Len(dec.Layers)
    /\ LET i     == dec.i
           lt    == LayerType(dec, i)
           cache == SetLayerType(SetLayer(dec.cache, i), lt)
           r     == LayerForward(dec.Layers[i + 1], dec.hidden, Out(dec, i), dec.enc, cache)
       IN  dec' = IF RunsLayer(lt, dec.enc, cache)
                    THEN [dec EXCEPT !.cache = r.cache, !.hidden = r.hidden, !.i = i + 1]
                    ELSE [dec EXCEPT !.cache = cache, !.i = i + 1]
    /\ UNCHANGED NotDecoder

\* The loop is over: Forward returns hidden.
DecoderReturn ==
    /\ dec.pc = "loop"
    /\ dec.i = Len(dec.Layers)
    /\ dec' = [dec EXCEPT !.pc = "returned"]
    /\ UNCHANGED NotDecoder

\* The next pass: Forward is called again on the same model and the same
\* cache, on a new batch, with or without encoder output.  calls starts
\* over: it is the record of one pass.
DecoderForward ==
    /\ dec.pc = "returned"
    /\ \E n \in 1..MaxBatch, enc \in BOOLEAN :
          \E outputs \in OutputTensors(n) :
             dec' = [dec EXCEPT
                       !.pc = "loop", !.enc = enc, !.outputs = outputs,
                       !.hidden = [rows |-> [k \in 1..n |-> k], by |-> <<>>],
                       !.i = 0, !.cache.calls = <<>>]
    /\ UNCHANGED NotDecoder

NextDecoder == DecoderLayer \/ DecoderReturn \/ DecoderForward

\* A model of up to MaxLayers blocks and its first Forward call, on a batch
\* of up to MaxBatch positions, with or without encoder output, on a new
\* cache.
InitDecoder ==
    /\ \E block_count \in 1..MaxLayers, cross \in SUBSET (0..(MaxLayers - 1)),
          n \in 1..MaxBatch, enc \in BOOLEAN :
          \E outputs \in OutputTensors(n) :
             LET tm == newTextModel(block_count, cross)
             IN  dec = [NoForward EXCEPT
                          !.pc = "loop", !.Layers = tm.Layers,
                          !.crossAttentionLayers = tm.crossAttentionLayers,
                          !.enc = enc, !.outputs = outputs,
                          !.hidden = [rows |-> [k \in 1..n |-> k], by |-> <<>>]]
    /\ StoreIdle /\ TemplateIdle /\ TokenizerIdle /\ PruneIdle /\ ReplIdle

SpecDecoder == InitDecoder /\ [][NextDecoder]_vars

(***************************************************************************)
(* Claims on the text decoder.                                             *)
(***************************************************************************)

\* The layer applied last to a hidden state.
LastApplied(hidden) == hidden.by[Len(hidden.by)]

\* The step ran a layer: the hidden state has one more layer applied.
RanLayer == Len(dec'.hidden.by) = Len(dec.hidden.by) + 1

\* C25: every step of Forward inside the loop takes the layer at the next
\* index (the index starts at 0 and grows by one, and Forward returns only
\* after the last index); it leaves the cache on that layer index with the
\* layer type cross iff the index is in crossAttentionLayers, and a layer
\* that runs attends through the cache so set; the layer runs iff it is a
\* self-attention layer, or encoder output is present, or the cache reports
\* EncoderCached; the hidden state is unchanged by a layer that is skipped.
C25_LayersInOrder ==
    [][ (dec.pc = "loop" /\ dec' # dec) =>
          IF dec.i < Len(dec.Layers)
            THEN LET lt == IF dec.i \in dec.crossAttentionLayers
                             THEN "cross" ELSE "self"
                 IN  /\ dec'.pc = "loop"
                     /\ dec'.i = dec.i + 1
                     /\ dec'.cache.layer = dec.i
                     /\ dec'.cache.layerType = lt
                     /\ dec.Layers[dec.i + 1] = lt
                     /\ RanLayer <=>
                          (lt = "self" \/ dec.enc \/ dec.cache.encoderCached)
                     /\ RanLayer =>
                          LastApplied(dec'.hidden) =
                             [kind |-> lt, layer |-> dec.i, layerType |-> lt]
                     /\ ~RanLayer => dec'.hidden = dec.hidden
            ELSE /\ dec.i = Len(dec.Layers)
                 /\ dec'.pc = "returned"
                 /\ dec'.hidden = dec.hidden ]_vars

\* C25 witness: Forward returned from a self, cross, self stack without
\* encoder output or cached encoder state; the cross layer was skipped.
C25_Witness ==
    /\ dec.pc = "returned"
    /\ dec.Layers = <<"self", "cross", "self">>
    /\ ~dec.enc /\ ~dec.cache.encoderCached
    /\ [k \in 1..Len(dec.hidden.by) |-> dec.hidden.by[k].layer] = <<0, 2>>

\* C25 witness: without encoder output but with cached encoder state the
\* cross-attention layer ran.
C25_WitnessCached ==
    /\ dec.pc = "returned"
    /\ dec.Layers = <<"self", "cross", "self">>
    /\ ~dec.enc /\ dec.cache.encoderCached
    /\ [k \in 1..Len(dec.hidden.by) |-> dec.hidden.by[k].kind] = <<"self", "cross", "self">>

\* C26: when outputs is given, the hidden state Forward returns holds the
\* positions selected by outputs and no other.
C26_OnlySelectedPositions ==
    (dec.pc = "returned" /\ dec.outputs.given) => dec.hidden.rows = dec.outputs.rows

\* C26, as the code has it: the selection is made when the last layer is a
\* self-attention layer, and by no other layer.
C26_SelectedByLastSelfLayer ==
    (dec.pc = "returned" /\ dec.outputs.given) =>
        IF dec.Layers[Len(dec.Layers)] = "self"
          THEN dec.hidden.rows = dec.outputs.rows
          ELSE dec.hidden.rows = [k \in 1..Len(dec.hidden.rows) |-> k]

\* C26: a stack that ends in a cross-attention layer returned all the
\* positions of the batch though outputs selects one.
C26_WitnessAllPositions ==
    /\ dec.pc = "returned"
    /\ dec.Layers = <<"self", "cross">>
    /\ dec.outputs = [given |-> TRUE, rows |-> <<2>>]
    /\ dec.hidden.rows = <<1, 2>>

(***************************************************************************)
(* Claims on the legacy rendering of Template.Execute.                     *)
(***************************************************************************)

\* The last Execute call took the legacy path and returned nil.
LegacyRendered == tpc = "executed" /\ tres.mode = "legacy" /\ tres.err = ""

\* The non-empty values one key had over the template executions of the
\* last call, in order.
SlotsPassed(key) ==
    SelectSeq([k \in 1..Len(tres.renders) |-> tres.renders[k][key].v],
              LAMBDA s : s # <<>>)

\* The contents of the collated turns of one role, in order.
TurnContents(role) ==
    LET turns == SelectSeq(tres.collated, LAMBDA t : t.role = role)
    IN  [k \in 1..Len(turns) |-> turns[k].content]

\* C27: after a legacy rendering every system, user and assistant content
\* of the collated turns was passed to exactly one template execution: the
\* System, Prompt and Response values of the executions are, in order, the
\* contents of the system, user and assistant turns.
C27_NoTurnLost ==
    LegacyRendered =>
        /\ SlotsPassed("System") = TurnContents("system")
        /\ SlotsPassed("Prompt") = TurnContents("user")
        /\ SlotsPassed("Response") = TurnContents("assistant")

\* C27, as the code has it: no turn is lost when no tool turn stands
\* between two turns of the same role.
C27_NoTurnLostWithoutTool ==
    (LegacyRendered /\ \A k \in 1..Len(tres.collated) : tres.collated[k].role # "tool") =>
        /\ SlotsPassed("System") = TurnContents("system")
        /\ SlotsPassed("Prompt") = TurnContents("user")
        /\ SlotsPassed("Response") = TurnContents("assistant")

\* C27: the user turns u and v with a tool turn between them were rendered
\* by one execution, which was given v only.
C27_WitnessLostTurn ==
    /\ LegacyRendered
    /\ tv.Messages = <<Msg("user", <<"u">>), Msg("tool", <<"t">>), Msg("user", <<"v">>)>>
    /\ Len(tres.renders) = 1
    /\ tres.renders[1]["Prompt"].v = <<"v">>

RECURSIVE HasResponseField(_)
\* A FieldNode whose Ident contains Response occurs in the tree under n.
HasResponseField(n) ==
    CASE n.type = "field" -> "Response" \in Range(n.ident)
      [] n.type = "list" -> \E k \in DOMAIN n.nodes : HasResponseField(n.nodes[k])
      [] n.type \in BranchKinds ->
            \/ HasResponseField(n.pipe)
            \/ HasResponseField(n.list)
            \/ (n.elseList # Nil /\ HasResponseField(n.elseList))
      [] n.type = "action" -> HasResponseField(n.pipe)
      [] n.type = "pipe" -> \E k \in DOMAIN n.cmds : HasResponseField(n.cmds[k])
      [] n.type = "command" -> \E k \in DOMAIN n.args : HasResponseField(n.args[k])
      [] OTHER -> FALSE

\* C28: the tree of the final legacy execution holds no FieldNode whose
\* identifier chain contains Response.
C28_ResponseRemoved == LegacyRendered => ~HasResponseField(tres.final)

\* C28, as the code has it: the predicate answers false at the FieldNode
\* itself, so the tree of the final execution holds it whenever the parsed
\* template does.
C28_ResponseKept ==
    (LegacyRendered /\ HasResponseField(tmpl)) => HasResponseField(tres.final)

\* C28: the final tree of the chat template ends with {{ .Response }}; only
\* the text after it was deleted, and the response was rendered.
C28_WitnessKept ==
    /\ LegacyRendered
    /\ tsrc = ChatTemplate
    /\ tres.final.nodes[Len(tres.final.nodes)] = Field(<<"Response">>)
    /\ Len(tres.final.nodes) = Len(tsrc.nodes) - 1
    /\ tres.out = <<"h", "i", " ", "y", "o">>

\* A step that is an Execute call on the parsed template.
ExecuteCall == tpc \in {"parsed", "executed"} /\ tpc' = "executed" /\ tres' # tres

\* C29: an Execute call, in any mode and after any calls before it, leaves
\* the parse tree of the template as Parse made it, the implicit
\* {{ .Response }} node included, and so its variable set; a call with the
\* Values of the call before it on the same template writes the same output
\* and returns the same error.
C29_TemplateNotMutated ==
    [][ ExecuteCall =>
          /\ tmpl' = tmpl
          /\ tmpl' = Parse(tsrc)
          /\ Vars(tmpl') = Vars(tmpl)
          /\ (tpc = "executed" /\ tv' = tv) =>
                (tres'.out = tres.out /\ tres'.err = tres.err) ]_vars

\* C29 witness: the chat template was rendered a second time in legacy
\* mode with the same conversation; the tree of the final execution lacks
\* the text after {{ .Response }}, while the template still has it.
C29_Witness ==
    /\ tpc = "executed"
    /\ tres.again /\ tres.mode = "legacy" /\ tres.err = ""
    /\ tsrc = ChatTemplate
    /\ tres.final # tmpl
    /\ tmpl = Parse(tsrc)
    /\ tres.out = <<"h", "i", " ", "y", "o", "<", "e", ">", "v", " ">>

\* The line read in this step ends in """ inside a multi-line system
\* message: it closes the block.
SystemBlockClosed ==
    /\ repl.pc = "read"
    /\ repl.multiline = "MultilineSystem"
    /\ LineRead
    /\ HasSuffix(repl'.line, TripleQuote)

\* The text captured by the block that the line read in this step closes.
CapturedText == repl.sb \o CutSuffix(repl'.line, TripleQuote).rest

\* The system message is set to the captured text and is appended to the
\* history as a system message.
SystemMessageSet ==
    /\ repl'.System = CapturedText
    /\ Len(repl'.Messages) > Len(repl.Messages)
    /\ SubSeq(repl'.Messages, 1, Len(repl.Messages) + 1)
          = Append(repl.Messages, Message("system", CapturedText))

\* C30: the step that closes a MultilineSystem block sets the system
\* message to the captured text and appends it to the history as a system
\* message, adds no user message, does not call chat and leaves the buffer
\* empty.
C30_SystemBlockOnlySetsSystem ==
    [][ SystemBlockClosed =>
          /\ SystemMessageSet
          /\ UserMessages(repl'.Messages) = UserMessages(repl.Messages)
          /\ repl'.pc = "read"
          /\ repl'.sb = <<>> ]_vars

\* C30, as the code has it: the buffer is not reset, so that a non-empty
\* captured text is also sent as a user message in the same step; chat is
\* called with it unless extractFileData fails and ends the session.
C30_SystemBlockAlsoSent ==
    [][ (SystemBlockClosed /\ repl'.pc # "exited") =>
          /\ SystemMessageSet
          /\ repl'.sb = CapturedText
          /\ IF CapturedText = <<>>
               THEN repl'.pc = "read" /\ Len(repl'.Messages) = Len(repl.Messages) + 1
               ELSE /\ repl'.pc = "chat"
                    /\ Len(repl'.Messages) = Len(repl.Messages) + 2
                    /\ repl'.Messages[Len(repl'.Messages)].Role = "user"
                    /\ repl'.Messages[Len(repl'.Messages)].Content \in UserText(repl') ]_vars

\* C30: after /set system """S and a line """ the history is the system
\* message S followed by the user message S, and chat is in flight.
C30_WitnessSent ==
    /\ repl.pc = "chat"
    /\ repl.event = "line"
    /\ repl.line = TripleQuote
    /\ repl.System = <<"S">>
    /\ repl.Messages = <<Message("system", <<"S">>), Message("user", <<"S">>)>>

\* C30: after /set system """ and a line """ nothing was captured: the
\* system message is empty, the buffer is empty and chat was not called.
C30_WitnessEmpty ==
    /\ repl.pc = "read"
    /\ repl.event = "line"
    /\ repl.line = TripleQuote
    /\ repl.n = 2
    /\ repl.multiline = "MultilineNone"
    /\ repl.Messages = <<Message("system", <<>>)>>

\* C31: in every state of the session the alternate prompt is shown if and
\* only if the state is MultilinePrompt or MultilineSystem; after an
\* interrupt the state is Normal and the buffer is empty.
C31_AltPromptIffBlock ==
    repl.pc \in {"read", "chat"} =>
        /\ repl.UseAlt <=> repl.multiline \in {"MultilinePrompt", "MultilineSystem"}
        /\ repl.event = "interrupt" =>
              (repl.multiline = "MultilineNone" /\ repl.sb = <<>>)

\* C31, as the code has it: the alternate prompt is shown only inside a
\* block, and an interrupt empties the buffer and takes the alternate prompt
\* away; it does not end the block.
C31_AltPromptOnlyInBlock ==
    repl.pc \in {"read", "chat"} =>
        /\ repl.UseAlt => repl.multiline \in {"MultilinePrompt", "MultilineSystem"}
        /\ repl.event = "interrupt" => (~repl.UseAlt /\ repl.sb = <<>>)

\* C31: after """hi, an interrupt and /bye the session goes on in
\* MultilinePrompt with the normal prompt, and /bye is in the buffer.
C31_WitnessStillInBlock ==
    /\ repl.pc = "read"
    /\ repl.n = 3
    /\ repl.multiline = "MultilinePrompt"
    /\ ~repl.UseAlt
    /\ repl.line = <<"/", "b", "y", "e">>
    /\ repl.sb = <<"/", "b", "y", "e">> \o NewLine

\* The line read in this step is a /load command whose model was not found
\* (the error was printed).
LoadNotFound ==
    /\ CommandRead
    /\ HasPrefix(repl'.line, <<"/", "l", "o", "a", "d">>)
    /\ \E k \in DOMAIN repl'.printed : repl'.printed[k] = Said("error: %v", {})

\* C34: a /load that fails with "not found" leaves the model name and the
\* history of the session as they were, and the session goes on.
C34_FailedLoadChangesNothing ==
    [][ LoadNotFound =>
          /\ repl'.Model = repl.Model
          /\ repl'.Messages = repl.Messages
          /\ repl'.pc = "read" ]_vars

\* C34, as the code has it: the session goes on, with the name that was not
\* found as its model and an empty history.
C34_FailedLoadSwitchesModel ==
    [][ LoadNotFound =>
          /\ repl'.Model = Fields(repl'.line)[2]
          /\ repl'.Messages = <<>>
          /\ repl'.pc = "read" ]_vars

\* C34: after hi, the reply of the assistant and a /load m2 that was not
\* found, the session has model m2 and no history.
C34_WitnessHistoryLost ==
    /\ repl.pc = "read"
    /\ repl.n = 2
    /\ repl.line = <<"/", "l", "o", "a", "d", " ", "m", "2">>
    /\ repl.printed = <<Said("Loading model '%s'", {}), Said("error: %v", {})>>
    /\ repl.Model = <<"m", "2">>
    /\ repl.Messages = <<>>

(***************************************************************************)
(* Claims on the merge loop of SentencePieceModel.Encode.                  *)
(***************************************************************************)

\* The merge nodes that hold runes.
Live(merges) == {r \in DOMAIN merges : Len(merges[r].runes) > 0}

\* This step of the loop applied a merge: a node lost its runes.
MergeApplied ==
    /\ tk.pc = "merging"
    /\ tk'.pc = "merging"
    /\ Live(tk'.merges) # Live(tk.merges)

\* The node that the merge of this step emptied, and the node it grew.
MergedRight == CHOOSE r \in Live(tk.merges) : r \notin Live(tk'.merges)

MergedLeft ==
    CHOOSE r \in Live(tk.merges) : Len(tk'.merges[r].runes) > Len(tk.merges[r].runes)

\* The score of the candidates Dequeue may return (they all have the same).
PoppedScore == tk.pq[CHOOSE i \in Heads(tk.pq) : TRUE].score

\* The score of the token made of nodes a and b as they are now; none when
\* their concatenation is no token.
PairScore(a, b) ==
    LET id == VocabEncode(tk.vocab, tk.merges[a].runes \o tk.merges[b].runes) IN
    IF id >= 0 THEN <<Score(tk.vocab, id)>> ELSE <<>>

\* The adjacent pairs of live nodes whose concatenation is a token.
Mergeable ==
    {p \in Live(tk.merges) \X Live(tk.merges) :
        /\ p[1] < p[2]
        /\ \A r \in Live(tk.merges) : ~(p[1] < r /\ r < p[2])
        /\ PairScore(p[1], p[2]) # <<>>}

\* C32: when a merge is applied, the score of the popped candidate is the
\* score of the token its two nodes make now, and no other mergeable pair
\* of adjacent nodes scores higher, or as high with a lower left index.
C32_FreshGreedyMerge ==
    [][ MergeApplied =>
          /\ PairScore(MergedLeft, MergedRight) = <<PoppedScore>>
          /\ \A p \in Mergeable :
                \/ PairScore(p[1], p[2])[1] < PoppedScore
                \/ PairScore(p[1], p[2])[1] = PoppedScore /\ p[1] >= MergedLeft ]_vars

\* C32, as the code has it: a popped candidate is applied whenever its two
\* nodes hold runes and make a token now, whatever they held when it was
\* enqueued and whatever score it carries.
C32_MergeOfTokenPair ==
    [][ MergeApplied =>
          /\ <<MergedLeft, MergedRight>> \in Mergeable
          /\ \E i \in Heads(tk.pq) :
                tk.pq[i].a = MergedLeft /\ tk.pq[i].b = MergedRight ]_vars

\* C32: in abab with the vocabulary VocabLong, ba was merged first and then
\* the candidate enqueued for a and b was applied to a and ba.
C32_WitnessStaleApplied ==
    /\ tk.pc = "merging"
    /\ tk.vocab = VocabLong
    /\ tk.runes = <<"a", "b", "a", "b">>
    /\ tk.merges[0].runes = <<"a", "b", "a">>
    /\ \E i \in DOMAIN tk.pq : tk.pq[i] = [a |-> 0, b |-> 1, score |-> -8]

RECURSIVE RunesFrom(_, _)
\* The runes of the merge nodes from index r on, in index order.
RunesFrom(merges, r) ==
    IF r \notin DOMAIN merges THEN <<>>
    ELSE merges[r].runes \o RunesFrom(merges, r + 1)

\* C37: throughout the merge loop the runes of the merge nodes, taken in
\* index order, are the runes of the piece being encoded.
C37_RunesConserved ==
    tk.pc = "merging" => RunesFrom(tk.merges, 0) = tk.runes

\* C37 witness: two merges were applied to the piece abab (ab, then ab) and
\* the queue is empty.
C37_Witness ==
    /\ tk.pc = "merging"
    /\ tk.runes = <<"a", "b", "a", "b">>
    /\ Live(tk.merges) = {0, 2}
    /\ tk.merges[0].runes = <<"a", "b">>
    /\ tk.merges[2].runes = <<"a", "b">>
    /\ tk.pq = <<>>

\* C38: in every state of the merge loop the next link of a node that holds
\* runes is the nearest node to its right that holds runes (the number of
\* nodes when there is none), and its prev link the nearest such node to its
\* left (-1 when there is none); a candidate at the head of the queue whose
\* two nodes hold runes names a node and its next.
C38_LinksConsistent ==
    tk.pc = "merging" =>
        /\ \A r \in Live(tk.merges) :
              /\ tk.merges[r].n \in Live(tk.merges) \cup {Len(tk.runes)}
              /\ tk.merges[r].n > r
              /\ \A x \in Live(tk.merges) : ~(r < x /\ x < tk.merges[r].n)
              /\ tk.merges[r].p \in Live(tk.merges) \cup {-1}
              /\ tk.merges[r].p < r
              /\ \A x \in Live(tk.merges) : ~(tk.merges[r].p < x /\ x < r)
        /\ \A i \in Heads(tk.pq) :
              (tk.pq[i].a \in Live(tk.merges) /\ tk.pq[i].b \in Live(tk.merges))
                 => tk.merges[tk.pq[i].a].n = tk.pq[i].b

\* C38 witness: in abaa the nodes 1 and 2 were merged into ba: node 1 is
\* linked to node 3 and back, over the emptied node 2.
C38_Witness ==
    /\ tk.pc = "merging"
    /\ tk.runes = <<"a", "b", "a", "a">>
    /\ Live(tk.merges) = {0, 1, 3}
    /\ tk.merges[1].n = 3
    /\ tk.merges[3].p = 1

\* A step of the merge loop: one candidate is popped.
PopStep == tk.pc = "merging" /\ tk'.pc = "merging"

\* C39: every pop either discards the candidate (the nodes stay as they are
\* and the queue is one shorter) or leaves one node less holding runes and
\* enqueues at most two candidates; and the merge loop, once entered, is
\* left.
C39_MergeLoopTerminates ==
    /\ [][ PopStep =>
             \/ /\ tk'.merges = tk.merges
                /\ Len(tk'.pq) = Len(tk.pq) - 1
             \/ /\ Cardinality(Live(tk'.merges)) = Cardinality(Live(tk.merges)) - 1
                /\ Len(tk'.pq) <= Len(tk.pq) + 1 ]_vars
    /\ (tk.pc = "merging") ~> (tk.pc # "merging")

\* C39 witness: in abaa with VocabLong the queue is empty after two merges
\* and one discarded candidate; a, b, a became aba.
C39_Witness ==
    /\ tk.pc = "merging"
    /\ tk.vocab = VocabLong
    /\ tk.runes = <<"a", "b", "a", "a">>
    /\ Live(tk.merges) = {0, 3}
    /\ tk.pq = <<>>

(***************************************************************************)
(* Claims on the delete map of PullModel.                                  *)
(***************************************************************************)

\* A PullModel call is running.
Pulling(p) == p.pc \notin {"idle", "done"}

\* The layer digests and the config digest of a manifest file; none when
\* the file is absent or is no manifest.
DigestsOf(f) ==
    IF f.kind = "manifest"
    THEN {f.layers[k] : k \in DOMAIN f.layers} \cup ({f.config} \ {""})
    ELSE {}

C36_WitnessFailed ==
    /\ pull.pc = "done"
    /\ pull.err = "download"
    /\ BlobFile("sha256:a") \in blobs
    /\ PartialFile("sha256:b") \in blobs

\* C33: no Execute call aborts in the removal walk: the call returns nil or
\* an error, and after a legacy rendering the tree deleteNode returned is a
\* list.
C33_WalkNeverAborts ==
    tpc = "executed" =>
        /\ tres.err \in {"", "exec"}
        /\ LegacyRendered => tres.final.type = "list"

\* C33, as the code has it: in legacy mode the walk panics exactly when all
\* the turns were rendered and the predicate deletes the list or the else
\* list of a branch, which is when deleteNode of the tree panics.
C33_AbortsOnDeletedBranchList ==
    (tpc = "executed" /\ tres.mode = "legacy") =>
        /\ tres.err = "panic" => deleteNode(tmpl).panic
        /\ (deleteNode(tmpl).panic /\ tres.err # "exec") => tres.err = "panic"

\* C33: the template {{ if .Prompt }}{{ .Response }}{{ else }}x{{ end }}
\* was executed with one user turn and the call panicked.
C33_WitnessPanic ==
    /\ tpc = "executed"
    /\ tsrc = ResponseInIfTemplate
    /\ tv.Messages = <<Msg("user", <<"u">>)>>
    /\ tres.err = "panic"

(***************************************************************************)
(* Claims on the cache calls of the cross-attention block.                 *)
(***************************************************************************)

\* The indexes in the calls of the pass at which op was called on layer l.
CallsOf(op, l) ==
    {k \in 1..Len(dec.cache.calls) :
        dec.cache.calls[k].op = op /\ dec.cache.calls[k].layer = l}

\* The cross-attention layers the loop of the pass has gone past.
CrossLayersPassed ==
    {l \in 0..(dec.i - 1) : dec.Layers[l + 1] = "cross"}

\* C35: in every pass, each cross-attention layer the loop has gone past
\* has put its keys and values in the cache iff the pass has encoder
\* output, and no other layer has; every Get is made by a cross-attention
\* layer on its own cache layer, which holds encoder keys and values then,
\* and it comes after a Put on that layer in the same pass or was made
\* when the cache reported EncoderCached.
C35_PutIffEncoderOutput ==
    dec.pc \in {"loop", "returned"} =>
        /\ \A l \in CrossLayersPassed : (CallsOf("Put", l) # {}) <=> dec.enc
        /\ \A k \in 1..Len(dec.cache.calls) :
              LET c == dec.cache.calls[k] IN
              /\ c.layer \in CrossLayersPassed
              /\ c.op = "Get" =>
                    /\ c.held
                    /\ \/ \E j \in CallsOf("Put", c.layer) : j < k
                       \/ c.encoderCached

\* C35 witness: a pass with encoder output has put and then got the keys
\* and values of cross-attention layer 1.
C35_Witness ==
    /\ dec.pc = "returned"
    /\ dec.Layers = <<"self", "cross", "self">>
    /\ dec.enc
    /\ [k \in 1..Len(dec.cache.calls) |-> dec.cache.calls[k].op] = <<"Put", "Get">>
    /\ ~dec.cache.calls[1].encoderCached

\* C35 witness: a later pass without encoder output got the keys and values
\* an earlier pass had put in layer 1, and put nothing.
C35_WitnessReused ==
    /\ dec.pc = "returned"
    /\ dec.Layers = <<"self", "cross", "self">>
    /\ ~dec.enc
    /\ dec.cache.calls =
          <<[op |-> "Get", layer |-> 1, encoderCached |-> TRUE, held |-> TRUE]>>

=============================================================================
